---- MODULE Spec2Model ----
(***************************************************************************)
(* The two single-flight refresh caches of the spreadsheet viewer           *)
(* (src/app/api/sos/route.ts and src/app/api/sheets/route.ts) on one        *)
(* JavaScript event loop, with the row projector and the helpers they call. *)
(*                                                                          *)
(* A JavaScript string is a sequence of one-character strings.  A CJK       *)
(* character is written as the token "uXXXX" of its code point, since the   *)
(* module is ASCII.  A value that may be undefined or null is Undefined or  *)
(* Some(v).                                                                 *)
(***************************************************************************)
EXTENDS Integers, Sequences, FiniteSets, TLC

Undefined == [defined |-> FALSE]
Some(v) == [defined |-> TRUE, value |-> v]
\* the null of `let cache: GlobalCache | null`
Null == [null |-> TRUE]

----------------------------------------------------------------------------
(* Strings                                                                  *)

Digits == {"0", "1", "2", "3", "4", "5", "6", "7", "8", "9"}

DigitVal(c) ==
  CASE c = "0" -> 0 [] c = "1" -> 1 [] c = "2" -> 2 [] c = "3" -> 3
    [] c = "4" -> 4 [] c = "5" -> 5 [] c = "6" -> 6 [] c = "7" -> 7
    [] c = "8" -> 8 [] c = "9" -> 9

\* The characters \s matches that occur in the model's inputs.
Whitespace == {" ", "\t", "\n", "u3000"}

Range(s) == {s[i] : i \in DOMAIN s}

\* pat occurs in s at position i
MatchAt(s, pat, i) ==
  /\ i >= 1
  /\ i + Len(pat) - 1 <= Len(s)
  /\ \A j \in 1..Len(pat) : s[i + j - 1] = pat[j]

\* String.prototype.includes
Includes(s, pat) == \E i \in 1..(Len(s) + 1) : MatchAt(s, pat, i)

\* String.prototype.replace with a global regular expression that is a
\* literal: scan from the left, replace every non-overlapping occurrence.
\* From position i on: the text up to the leftmost occurrence, rep, and
\* the scan goes on behind the occurrence.
RECURSIVE ReplaceFrom(_, _, _, _)
ReplaceFrom(s, pat, rep, i) ==
  LET found == {j \in i..Len(s) : MatchAt(s, pat, j)}
      first == CHOOSE j \in found : \A k \in found : j <= k
  IN IF found = {} THEN SubSeq(s, i, Len(s))
     ELSE SubSeq(s, i, first - 1) \o rep
            \o ReplaceFrom(s, pat, rep, first + Len(pat))

ReplaceAll(s, pat, rep) == ReplaceFrom(s, pat, rep, 1)

\* the end of the longest run of characters of set cs that starts at i
\* (i - 1 when s[i] is not in cs)
RECURSIVE RunEnd(_, _, _)
RunEnd(s, cs, i) ==
  IF i <= Len(s) /\ s[i] \in cs THEN RunEnd(s, cs, i + 1) ELSE i - 1

\* the end of the longest run of characters other than c that starts at i
RECURSIVE RunEndNot(_, _, _)
RunEndNot(s, c, i) ==
  IF i <= Len(s) /\ s[i] # c THEN RunEndNot(s, c, i + 1) ELSE i - 1

\* the value of a sequence of decimal digits
RECURSIVE DecimalValue(_)
DecimalValue(ds) ==
  IF ds = <<>> THEN 0
  ELSE 10 * DecimalValue(SubSeq(ds, 1, Len(ds) - 1)) + DigitVal(ds[Len(ds)])

NaN == "NaN"

\* parseInt(s): skip leading white space, an optional sign, then the
\* longest run of decimal digits; NaN when there is none.  (The 0x prefix is
\* not modelled: no input of the model has it.)  TLC cannot compare NaN with
\* a number, so a caller asks parseIntIsNaN before it compares.
parseIntIsNaN(s) ==
  LET a == RunEnd(s, Whitespace, 1) + 1
      b == IF a <= Len(s) /\ s[a] \in {"-", "+"} THEN a + 1 ELSE a
  IN RunEnd(s, Digits, b) < b

parseInt(s) ==
  LET a == RunEnd(s, Whitespace, 1) + 1
      neg == a <= Len(s) /\ s[a] = "-"
      b == IF a <= Len(s) /\ s[a] \in {"-", "+"} THEN a + 1 ELSE a
      e == RunEnd(s, Digits, b)
  IN IF parseIntIsNaN(s) THEN NaN
     ELSE IF neg THEN 0 - DecimalValue(SubSeq(s, b, e))
          ELSE DecimalValue(SubSeq(s, b, e))

----------------------------------------------------------------------------
(* Date parser: src/app/api/sos/route.ts, parseChineseDate                  *)

Nian == "u5e74"
Yue == "u6708"
Ri == "u65e5"
\* "u4e0a u5348" is the morning marker, "u4e0b u5348" the afternoon marker
Morning == <<"u4e0a", "u5348">>
Afternoon == <<"u4e0b", "u5348">>

NoMatch == [ok |-> FALSE]

\* The regular expression of line 31 tried at position i of s:
\* (\d+) Nian (\d+) Yue (\d+) Ri \s* (Morning|Afternoon) (\d+):(\d+):(\d+)
\* Every \d+ is followed by a character that is no digit (or ends the
\* expression), so the greedy run is the only candidate.
MatchDateAt(s, i) ==
  LET e1 == RunEnd(s, Digits, i)
      e2 == RunEnd(s, Digits, e1 + 2)
      e3 == RunEnd(s, Digits, e2 + 2)
      p  == RunEnd(s, Whitespace, e3 + 2) + 1
      e5 == RunEnd(s, Digits, p + 2)
      e6 == RunEnd(s, Digits, e5 + 2)
      e7 == RunEnd(s, Digits, e6 + 2)
  IN IF /\ e1 >= i /\ MatchAt(s, <<Nian>>, e1 + 1)
        /\ e2 >= e1 + 2 /\ MatchAt(s, <<Yue>>, e2 + 1)
        /\ e3 >= e2 + 2 /\ MatchAt(s, <<Ri>>, e3 + 1)
        /\ (MatchAt(s, Morning, p) \/ MatchAt(s, Afternoon, p))
        /\ e5 >= p + 2 /\ MatchAt(s, <<":">>, e5 + 1)
        /\ e6 >= e5 + 2 /\ MatchAt(s, <<":">>, e6 + 1)
        /\ e7 >= e6 + 2
     THEN [ok |-> TRUE,
           year |-> SubSeq(s, i, e1),
           month |-> SubSeq(s, e1 + 2, e2),
           day |-> SubSeq(s, e2 + 2, e3),
           period |-> SubSeq(s, p, p + 1),
           hour |-> SubSeq(s, p + 2, e5),
           minute |-> SubSeq(s, e5 + 2, e6),
           second |-> SubSeq(s, e6 + 2, e7)]
     ELSE NoMatch

\* dateStr.match(...): the leftmost match
RECURSIVE MatchDateFrom(_, _)
MatchDateFrom(s, i) ==
  IF i > Len(s) THEN NoMatch
  ELSE IF MatchDateAt(s, i).ok THEN MatchDateAt(s, i)
       ELSE MatchDateFrom(s, i + 1)

MatchDate(s) == MatchDateFrom(s, 1)

\* line 41 left out: 12 in the morning stays 12
Hour24NoMidnight(period, hour) ==
  LET h0 == parseInt(hour)
  IN IF period = Afternoon /\ h0 < 12 THEN h0 + 12 ELSE h0

\* The hour of lines 39-41
Hour24(period, hour) ==
  LET h0 == parseInt(hour)
      h1 == IF period = Afternoon /\ h0 < 12 THEN h0 + 12 ELSE h0
  IN IF period = Morning /\ h1 = 12 THEN 0 ELSE h1

\* Days from 1970-01-01 to day d of month m (1..12) of year y of the
\* proleptic Gregorian calendar; d may lie outside the month.
DaysFromCivil(y, m, d) ==
  LET yy == IF m <= 2 THEN y - 1 ELSE y
      era == yy \div 400
      yoe == yy - era * 400
      mp == IF m > 2 THEN m - 3 ELSE m + 9
      doy == ((153 * mp + 2) \div 5) + d - 1
      doe == (yoe * 365) + (yoe \div 4) - (yoe \div 100) + doy
  IN (era * 146097) + doe - 719468

\* The server's offset from UTC, in seconds (Hong Kong time, no daylight
\* saving): the Date constructor reads its arguments as local time.
LocalOffsetSeconds == 8 * 3600

\* new Date(year, monthIndex, day, h, mi, s).getTime() / 1000.  Instants are
\* kept in seconds: every instant built here is a whole number of seconds,
\* and the millisecond value does not fit TLC's integers.  A year 0..99 is
\* read as 1900 + year; fields out of range carry over.
DateSeconds(year, monthIndex, day, h, mi, s) ==
  LET y0 == IF year >= 0 /\ year <= 99 THEN 1900 + year ELSE year
      y == y0 + (monthIndex \div 12)
      m == (monthIndex % 12) + 1
  IN (DaysFromCivil(y, m, day) * 86400) + (h * 3600) + (mi * 60) + s
       - LocalOffsetSeconds

\* The latest year a Date holds in full: a time value beyond 8.64e15 ms
\* (13 September 275760) is clipped to NaN.
MaxYear == 275760

\* new Date(year, monthIndex, ...) is an invalid date, getTime() is NaN.
\* The dates of the model lie before 2038 or after MaxYear, so the year
\* decides.
DateIsInvalid(year, monthIndex) == year + (monthIndex \div 12) > MaxYear

\* new Date(dateStr) for the generic strings of the model: the ISO form
\* dddd-dd-dd is a valid date, midnight UTC of that day; a string without a
\* digit is an invalid date, whose getTime() is NaN.
IsIsoDate(s) ==
  /\ Len(s) = 10
  /\ \A i \in {1, 2, 3, 4, 6, 7, 9, 10} : s[i] \in Digits
  /\ s[5] = "-" /\ s[8] = "-"
  /\ DecimalValue(SubSeq(s, 6, 7)) \in 1..12
  /\ DecimalValue(SubSeq(s, 9, 10)) \in 1..28

GenericDateSeconds(s) ==
  IF IsIsoDate(s)
  THEN DaysFromCivil(DecimalValue(SubSeq(s, 1, 4)),
                     DecimalValue(SubSeq(s, 6, 7)),
                     DecimalValue(SubSeq(s, 9, 10))) * 86400
  ELSE NaN

\* Line 43 returns getTime() as it is, NaN for an invalid date; only the
\* fallback of line 35 turns NaN into 0.  TLC cannot compare NaN with a
\* number, so a caller asks parseChineseDateIsNaN before it compares.
parseChineseDateIsNaN(dateStr) ==
  LET match == MatchDate(dateStr)
  IN /\ match.ok
     /\ DateIsInvalid(parseInt(match.year), parseInt(match.month) - 1)

\* a sentinel other than the epoch
FallbackInstantOther(dateStr) ==
  IF ~IsIsoDate(dateStr) THEN 0 - 1 ELSE GenericDateSeconds(dateStr)

\* lines 34-35: `isNaN(d.getTime()) ? 0 : d.getTime()`
FallbackInstant(dateStr) ==
  IF ~IsIsoDate(dateStr) THEN 0 ELSE GenericDateSeconds(dateStr)

parseChineseDate(dateStr) ==
  LET match == MatchDate(dateStr)
  IN IF ~match.ok
     THEN FallbackInstant(dateStr)
     ELSE IF parseChineseDateIsNaN(dateStr) THEN NaN
     ELSE DateSeconds(parseInt(match.year), parseInt(match.month) - 1,
                      parseInt(match.day),
                      Hour24(match.period, match.hour),
                      parseInt(match.minute), parseInt(match.second))

----------------------------------------------------------------------------
(* Row projector: src/app/api/sos/route.ts, processSheetData                *)

KwTimestamp == <<"u6642", "u9593", "u6233", "u8a18">>
KwLocation == << <<"u908a", "u5ea7">>, <<"u6a13", "u5c64">>,
                 <<"u55ae", "u4f4d">> >>
KwStatus == <<"u73fe", "u6642", "u60c5", "u6cc1">>
KwDetails == <<"u4f4f", "u6236", "u60c5", "u6cc1">>
KwSource == <<"u6d88", "u606f", "u4f86", "u6e90">>
\* the marker of a resident reported safe
SafeMarker == <<"u5e73", "u5b89">>

\* an index that is 0, the first column, when no cell matches
getColIndexFirst(header, keywords) ==
  LET hits == {i \in DOMAIN header :
                 \E k \in Range(keywords) : Includes(header[i], k)}
  IN IF hits = {} THEN 0
     ELSE (CHOOSE i \in hits : \A j \in hits : i <= j) - 1

\* header.findIndex(h => keywords.some(k => h.includes(k))): the zero-based
\* index of the first matching cell, -1 when there is none
getColIndex(header, keywords) ==
  LET hits == {i \in DOMAIN header :
                 \E k \in Range(keywords) : Includes(header[i], k)}
  IN IF hits = {} THEN -1
     ELSE (CHOOSE i \in hits : \A j \in hits : i <= j) - 1

\* row[idx] || ""
CellOrEmpty(row, idx) == IF idx + 1 \in DOMAIN row THEN row[idx + 1] ELSE <<>>

\* timestampObj of the record is NaN
IsNaNItem(item) == parseChineseDateIsNaN(item.timestamp)

\* the comparator of line 92, b.timestampObj - a.timestampObj; sort reads a
\* NaN result as 0
Compare(a, b) ==
  IF IsNaNItem(a) \/ IsNaNItem(b) THEN 0
  ELSE b.timestampObj - a.timestampObj

\* Array.prototype.sort with that comparator: a stable sort
RECURSIVE InsertDesc(_, _)
InsertDesc(sorted, item) ==
  IF sorted = <<>> THEN <<item>>
  ELSE IF Compare(sorted[Len(sorted)], item) <= 0
       THEN Append(sorted, item)
       ELSE Append(InsertDesc(SubSeq(sorted, 1, Len(sorted) - 1), item),
                   sorted[Len(sorted)])

RECURSIVE SortDesc(_)
SortDesc(items) ==
  IF items = <<>> THEN <<>>
  ELSE InsertDesc(SortDesc(SubSeq(items, 1, Len(items) - 1)),
                  items[Len(items)])

\* The comparator is consistent on items: "compares equal" is transitive.
\* It is not when a NaN record compares equal to two records that differ.
Consistent(items) ==
  \/ \A k \in DOMAIN items : ~IsNaNItem(items[k])
  \/ \A k, l \in DOMAIN items :
       ~IsNaNItem(items[k]) /\ ~IsNaNItem(items[l])
         => items[k].timestampObj = items[l].timestampObj

\* What sort may leave: with a consistent comparator the stable order, and
\* otherwise an order the engine defines, any arrangement of the records.
SortOutcomes(items) ==
  IF Consistent(items) THEN {SortDesc(items)}
  ELSE {[k \in DOMAIN items |-> items[f[k]]] :
          f \in Permutations(DOMAIN items)}

\* the status compared with the marker, not searched for it
IsSafeExact(status) == status = SafeMarker

\* the filter of line 78
IsSafe(status) == Includes(status, SafeMarker)

RECURSIVE SelectNotSafe(_, _)
SelectNotSafe(dataRows, idxStatus) ==
  IF dataRows = <<>> THEN <<>>
  ELSE IF IsSafe(CellOrEmpty(dataRows[1], idxStatus))
       THEN SelectNotSafe(Tail(dataRows), idxStatus)
       ELSE <<dataRows[1]>> \o SelectNotSafe(Tail(dataRows), idxStatus)

\* lines 50-91: the records before they are sorted.  rows is an array at the
\* only call, line 193, after the check of line 186
MapFilter(rows) ==
  IF Len(rows) < 2 THEN <<>>
  ELSE
    LET header == rows[1]
        dataRows == Tail(rows)
        idxTimestamp == getColIndex(header, <<KwTimestamp>>)
        idxLocation == getColIndex(header, KwLocation)
        idxStatus == getColIndex(header, <<KwStatus>>)
        idxDetails == getColIndex(header, <<KwDetails>>)
        idxSource == getColIndex(header, <<KwSource>>)
        kept == SelectNotSafe(dataRows, idxStatus)
        item(row) ==
          [timestamp |-> CellOrEmpty(row, idxTimestamp),
           timestampObj |-> parseChineseDate(CellOrEmpty(row, idxTimestamp)),
           location |-> CellOrEmpty(row, idxLocation),
           status |-> CellOrEmpty(row, idxStatus),
           details |-> IF idxDetails # -1 THEN CellOrEmpty(row, idxDetails)
                       ELSE <<>>,
           source |-> IF idxSource # -1 THEN CellOrEmpty(row, idxSource)
                      ELSE <<>>]
    IN IF idxTimestamp = -1 \/ idxLocation = -1 \/ idxStatus = -1 THEN <<>>
       ELSE [i \in 1..Len(kept) |-> item(kept[i])]

\* processSheetData where the order sort leaves is the stable one
processSheetData(rows) == SortDesc(MapFilter(rows))

\* what processSheetData may return
processSheetDataOutcomes(rows) == SortOutcomes(MapFilter(rows))

----------------------------------------------------------------------------
(* HTML adapter: src/app/api/sheets/route.ts, parseSheetTabs, rewriteUrls   *)

Quote == "\""

\* items.push({name:
ItemsPushName ==
  <<"i", "t", "e", "m", "s", ".", "p", "u", "s", "h", "(", "{", "n", "a",
    "m", "e", ":">>
\* pageUrl:
PageUrlLabel == <<"p", "a", "g", "e", "U", "r", "l", ":">>
\* gid:
GidLabel == <<"g", "i", "d", ":">>
\* the escapes \x3d and \/ of the page URL, and what they stand for
EscapedEquals == <<"\\", "x", "3", "d">>
EscapedSlash == <<"\\", "/">>

\* The regular expression of line 25 tried at position i of html:
\* items\.push\(\{name:\s*"([^"]+)",\s*pageUrl:\s*"([^"]+)",\s*gid:\s*"(\d+)
MatchItemAt(html, i) ==
  LET q1 == RunEnd(html, Whitespace, i + Len(ItemsPushName)) + 1
      n  == RunEndNot(html, Quote, q1 + 1)
      l2 == RunEnd(html, Whitespace, n + 3) + 1
      q2 == RunEnd(html, Whitespace, l2 + Len(PageUrlLabel)) + 1
      u  == RunEndNot(html, Quote, q2 + 1)
      l3 == RunEnd(html, Whitespace, u + 3) + 1
      q3 == RunEnd(html, Whitespace, l3 + Len(GidLabel)) + 1
      g  == RunEnd(html, Digits, q3 + 1)
  IN IF /\ MatchAt(html, ItemsPushName, i)
        /\ MatchAt(html, <<Quote>>, q1)
        /\ n >= q1 + 1 /\ MatchAt(html, <<Quote, ",">>, n + 1)
        /\ MatchAt(html, PageUrlLabel, l2)
        /\ MatchAt(html, <<Quote>>, q2)
        /\ u >= q2 + 1 /\ MatchAt(html, <<Quote, ",">>, u + 1)
        /\ MatchAt(html, GidLabel, l3)
        /\ MatchAt(html, <<Quote>>, q3)
        /\ g >= q3 + 1
     THEN [ok |-> TRUE, end |-> g,
           name |-> SubSeq(html, q1 + 1, n),
           pageUrl |-> SubSeq(html, q2 + 1, u),
           gid |-> SubSeq(html, q3 + 1, g)]
     ELSE NoMatch

\* html.matchAll(...), and the loop of lines 27-33 over its matches
RECURSIVE ParseTabsFrom(_, _)
ParseTabsFrom(html, i) ==
  IF i > Len(html) THEN <<>>
  ELSE LET match == MatchItemAt(html, i)
       IN IF match.ok
          THEN <<[name |-> match.name,
                  pageUrl |-> ReplaceAll(ReplaceAll(match.pageUrl,
                                EscapedEquals, <<"=">>), EscapedSlash, <<"/">>),
                  gid |-> match.gid]>>
               \o ParseTabsFrom(html, match.end + 1)
          ELSE ParseTabsFrom(html, i + 1)

parseSheetTabs(html) == ParseTabsFrom(html, 1)

HrefDq == <<"h", "r", "e", "f", "=", "\"", "/">>
HrefSq == <<"h", "r", "e", "f", "=", "'", "/">>
SrcDq == <<"s", "r", "c", "=", "\"", "/">>
SrcSq == <<"s", "r", "c", "=", "'", "/">>
UrlParen == <<"u", "r", "l", "(", "/">>
DocsOrigin ==
  <<"h", "t", "t", "p", "s", ":", "/", "/", "d", "o", "c", "s", ".", "g",
    "o", "o", "g", "l", "e", ".", "c", "o", "m", "/">>
GstaticRelative ==
  <<"/", "/", "s", "s", "l", ".", "g", "s", "t", "a", "t", "i", "c", ".",
    "c", "o", "m">>
GstaticAbsolute ==
  <<"h", "t", "t", "p", "s", ":", "/", "/", "s", "s", "l", ".", "g", "s",
    "t", "a", "t", "i", "c", ".", "c", "o", "m">>

\* the prefix of pattern pat up to its final "/", followed by the origin
WithOrigin(pat) == SubSeq(pat, 1, Len(pat) - 1) \o DocsOrigin

rewriteUrls(html) ==
  LET r1 == ReplaceAll(html, HrefDq, WithOrigin(HrefDq))
      r2 == ReplaceAll(r1, HrefSq, WithOrigin(HrefSq))
      r3 == ReplaceAll(r2, SrcDq, WithOrigin(SrcDq))
      r4 == ReplaceAll(r3, SrcSq, WithOrigin(SrcSq))
      r5 == ReplaceAll(r4, UrlParen, WithOrigin(UrlParen))
  IN ReplaceAll(r5, GstaticRelative, GstaticAbsolute)

----------------------------------------------------------------------------
(* Upstream: what the spreadsheet provider can answer                       *)

\* Bounds of the model
MaxRequests == 2
MaxTicks == 1

Instances == {"sos", "html"}

CACHE_TTL == 5 * 60 * 1000

\* Date.now() advances between two tasks of the event loop by one of these:
\* a snapshot of age CACHE_TTL is the oldest fresh one, one millisecond more
\* makes it stale
TimeSteps == {CACHE_TTL, CACHE_TTL + 1}

\* the number of steps of TimeSteps that add up to t
TickCount(t) == t \div CACHE_TTL

\* spreadsheets.get: the sheets of the spreadsheet as the provider lists
\* them, a sheet's properties possibly without title or sheetId
SosSpreadsheets ==
  { <<>>,
    <<[title |-> Some("Roll call"), sheetId |-> Undefined],
      [title |-> Undefined, sheetId |-> Some(7)]>> }

\* an error of the provider's client
SosErrors == {"The caller does not have permission"}

\* lib/google getSheetTabs, lines 58-61
getSheetTabs(sheets) ==
  [k \in DOMAIN sheets |->
     [title |-> IF ~sheets[k].title.defined THEN "Untitled"
                ELSE sheets[k].title.value,
      sheetId |-> IF ~sheets[k].sheetId.defined THEN 0
                  ELSE sheets[k].sheetId.value]]

HelpTimestamp ==
  <<"2", "0", "2", "5", Nian, "1", "1", Yue, "2", "7", Ri, " ">>
    \o Afternoon \o <<"0", "9", ":", "3", "8", ":", "2", "6">>

\* spreadsheets.values.get: the rows of one sheet
SosSheetRows ==
  { << <<KwTimestamp, <<"u6a13", "u5c64">>, KwStatus>>,
       <<HelpTimestamp, <<"1", "A">>, <<"u6c42", "u6551">>>>,
       <<<<"?">>, <<"2", "B">>, SafeMarker>>,
       <<<<"?">>, <<"3", "C">>>> >> }

\* what fetch() of the htmlview page can answer: a status, then a body
HttpStatuses == {200, 404}
FetchErrors == {"fetch failed"}

TabItem(name, url, gid) ==
  ItemsPushName \o <<" ", Quote>> \o name \o <<Quote, ",", " ">>
    \o PageUrlLabel \o <<" ", Quote>> \o url \o <<Quote, ",", " ">>
    \o GidLabel \o <<" ", Quote>> \o gid \o <<Quote, "}", ")", ";">>

MainDocs ==
  { <<"<", "p", ">">>,
    TabItem(<<"A">>, <<"\\", "/", "a", "?", "g", "\\", "x", "3", "d", "0">>,
            <<"0">>)
      \o TabItem(<<"B">>, <<"\\", "/", "b">>, <<"1", "2">>) }

\* the bodies of a tab's page: empty, or markup with a root-relative link
TabDocs == { <<>>, <<"<", "a", " ">> \o HrefDq \o <<"x", Quote, ">">> }

----------------------------------------------------------------------------
(* The two route handlers on one event loop                                 *)

VARIABLES
  env,            \* process.env: which variables are set
  cache,          \* per route: the module variable cache
  refreshPromise, \* per route: 0 (null) or the run whose promise it holds
  runs,           \* per route: the calls of fetchAllData, in call order
  reqs,           \* per route: the GET requests received, in arrival order
  micro,          \* the microtask queue of the event loop
  now,            \* Date.now()
  input,          \* the argument of the function under study, when one is
  output,         \* what the function returned for it
  page            \* the page mounted in a browser, when one is

\* the state of the routes
loop == <<env, cache, refreshPromise, runs, reqs, micro, now>>

vars == <<env, cache, refreshPromise, runs, reqs, micro, now, input, output, page>>

EnvNames ==
  {"SOS_SHEET_ID", "GOOGLE_SERVICE_ACCOUNT_EMAIL", "GOOGLE_PRIVATE_KEY",
   "SHEET_ID"}

\* the environments of the model: at most one variable is missing
EnvChoices ==
  {e \in [EnvNames -> BOOLEAN] : Cardinality({n \in EnvNames : ~e[n]}) <= 1}

\* `>=` in place of `>`: a snapshot of age CACHE_TTL counts as expired
isCacheExpiredAtTtl(c, t) == c = Null \/ t - c.timestamp >= CACHE_TTL

\* sos/route.ts line 149, sheets/route.ts line 110
isCacheExpired(c, t) == c = Null \/ t - c.timestamp > CACHE_TTL

\* the guard left out: every expired request starts a refresh
NoRefreshPromiseUnguarded(p) == TRUE

\* one refreshPromise for both routes
NoRefreshPromiseShared(p) == \A j \in Instances : refreshPromise[j] = 0

\* `if (!refreshPromise)`: sos/route.ts line 152, sheets/route.ts line 113
NoRefreshPromise(p) == p = 0

\* the status never looked at
ResponseOkUnchecked(status) == TRUE

\* Response.ok
ResponseOk(status) == status >= 200 /\ status <= 299

\* a lookup that falls back to some entry when the key has none
MapGetLenient(m, k) ==
  IF k \in DOMAIN m THEN Some(m[k])
  ELSE IF DOMAIN m # {} THEN Some(m[CHOOSE x \in DOMAIN m : TRUE])
       ELSE Undefined

\* Map.prototype.get
MapGet(m, k) == IF k \in DOMAIN m THEN Some(m[k]) ELSE Undefined

\* Map.prototype.set
MapSet(m, k, v) == [x \in DOMAIN m \cup {k} |-> IF x = k THEN v ELSE m[x]]

\* Math.round(ms / 1000) for ms >= 0
RoundSeconds(ms) == (ms + 500) \div 1000

\* a run of fetchAllData that has just been called: it awaits the tab list
NewRun(i) ==
  [phase |-> IF i = "sos" THEN "tabs" ELSE "main",
   tabs |-> <<>>,          \* the local tabs
   sheets |-> <<>>,        \* the local Map sheets (shared with the snapshot)
   tabState |-> <<>>,      \* per tab: "fetch", "text" or "done"
   value |-> Null,         \* the snapshot the run returned
   err |-> "",             \* the error the run threw
   listed |-> "pending",   \* history: how the tab list fetch ended
   issued |-> 0,           \* history: per-tab fetches issued
   fetched |-> <<>>,       \* history: tab index -> payload it fetched
   published |-> FALSE,    \* history: `cache = newCache` ran for this run
   prior |-> cache[i],     \* history: the snapshot when the run began
   priorSheets |->         \* history: and the content of its Map
     IF cache[i] = Null THEN <<>> ELSE runs[i][cache[i].sheets].sheets]

\* a promise of the chain settled: queue the reaction of the next link
Job(kind, i, g) == [kind |-> kind, inst |-> i, run |-> g, req |-> 0]

\* The object fetchAllData returns (sos lines 119-123, sheets lines 87-91).
\* sheets is a reference to the Map of run g, runs[i][g].sheets; tabsOf is
\* history: the run whose tab list this is.
Snapshot(g, run, t) ==
  [timestamp |-> t, tabs |-> run.tabs, sheets |-> g, tabsOf |-> g]

\* Promise.race in place of Promise.all: the first tab to settle ends the wait
AnySettled(tabState) ==
  tabState = <<>> \/ \E k \in DOMAIN tabState : tabState[k] = "done"

\* Promise.all over the per-tab promises, none of which rejects
AllSettled(tabState) == \A k \in DOMAIN tabState : tabState[k] = "done"

\* the run after one of its per-tab promises settled
Completed(g, run, t) ==
  IF AllSettled(run.tabState)
  THEN [run EXCEPT !.phase = "fulfilled", !.value = Snapshot(g, run, t)]
  ELSE run

Rejected(run, e) == [run EXCEPT !.phase = "rejected", !.err = e]

\* the microtask queue after run g of route i became newRun
Reactions(i, g, newRun) ==
  IF newRun.phase \in {"fulfilled", "rejected"}
  THEN Append(micro, Job("then", i, g))
  ELSE micro

SetRun(i, g, newRun) ==
  /\ runs' = [runs EXCEPT ![i][g] = newRun]
  /\ micro' = Reactions(i, g, newRun)

----------------------------------------------------------------------------
(* Responses                                                                *)

\* NextResponse.json({error}, {status}); from is history: the snapshot
\* (its run) the handler held when it answered, 0 when it held none
ErrorResponse(status, message, from) ==
  [status |-> status, error |-> message, from |-> from]

\* a query parameter: null (Undefined) and "" are falsy
Truthy(param) == param.defined /\ param.value # <<>>

\* cache.tabs.find(t => t.id === id)
FindTab(tabs, id) ==
  IF \E k \in DOMAIN tabs : tabs[k].id = id
  THEN Some(tabs[CHOOSE k \in DOMAIN tabs :
                   tabs[k].id = id /\ \A j \in 1..(k - 1) : tabs[j].id # id])
  ELSE Undefined

\* cache.sheets.get(parseInt(requestedSheetId)): NaN is the key of no entry
SosRows(sheets, requestedSheetId) ==
  IF parseIntIsNaN(requestedSheetId) THEN Undefined
  ELSE MapGet(sheets, parseInt(requestedSheetId))

SosTab(tabs, requestedSheetId) ==
  IF parseIntIsNaN(requestedSheetId) THEN Undefined
  ELSE FindTab(tabs, parseInt(requestedSheetId))

\* `!rows || !tab`, sos/route.ts line 186 (an empty array is truthy)
SosNotFound(rows, tab) == ~rows.defined \/ ~tab.defined

\* `!content`, sheets/route.ts line 148 (the empty string is falsy)
HtmlNotFound(content) == ~content.defined \/ content.value = <<>>

\* processSheetData(rows) for every rows the Map of a snapshot of the event
\* loop can hold: a sheet the provider returned, or the [] of line 115
processedSheets ==
  [rows \in SosSheetRows \cup {<<>>} |-> processSheetData(rows)]

\* processSheetData(rows) of line 193, read from processedSheets where it
\* is tabulated
Processed(rows) ==
  IF rows \in DOMAIN processedSheets THEN processedSheets[rows]
  ELSE processSheetData(rows)

\* sos/route.ts lines 178-207, with the snapshot c and its Map sheets
RespondSos(c, sheets, requestedSheetId, t) ==
  LET cacheAge == RoundSeconds(t - c.timestamp)
      rows == SosRows(sheets, requestedSheetId.value)
      tab == SosTab(c.tabs, requestedSheetId.value)
  IN IF Truthy(requestedSheetId)
     THEN IF SosNotFound(rows, tab)
          THEN ErrorResponse(404, [text |-> "Sheet with id ? not found",
                                   arg |-> requestedSheetId], c.sheets)
          ELSE [status |-> 200, name |-> tab.value.name, id |-> tab.value.id,
                items |-> Processed(rows.value),
                cacheAge |-> cacheAge,
                from |-> c.sheets, tabsFrom |-> c.tabsOf]
     ELSE [status |-> 200, tabs |-> c.tabs, cacheAge |-> cacheAge,
           from |-> c.tabsOf]

\* sheets/route.ts lines 141-174
RespondHtml(c, sheets, requestedGid, t) ==
  LET cacheAge == RoundSeconds(t - c.timestamp)
      content == MapGet(sheets, requestedGid.value)
  IN IF Truthy(requestedGid)
     THEN IF HtmlNotFound(content)
          THEN ErrorResponse(404, [text |-> "Sheet with gid ? not found",
                                   arg |-> requestedGid], c.sheets)
          ELSE [status |-> 200, content |-> content.value,
                cacheAge |-> cacheAge,
                from |-> c.sheets, tabsFrom |-> c.tabsOf]
     ELSE [status |-> 200,
           tabs |-> [k \in DOMAIN c.tabs |->
                       [name |-> c.tabs[k].name, gid |-> c.tabs[k].gid]],
           cacheAge |-> cacheAge, from |-> c.tabsOf]

\* the handler from `if (!cache)` on: sos lines 171-207, sheets 134-174
Respond(i, c, rs, param, t) ==
  IF c = Null
  THEN ErrorResponse(500, "Failed to load spreadsheet data", 0)
  ELSE IF i = "sos" THEN RespondSos(c, rs[c.sheets].sheets, param, t)
       ELSE RespondHtml(c, rs[c.sheets].sheets, param, t)

\* the checks left out
ConfigErrorNone(i) == ""

\* the configuration checks: sos lines 127-141, sheets lines 95-102
ConfigError(i) ==
  IF i = "sos"
  THEN IF ~env["SOS_SHEET_ID"]
       THEN "SOS_SHEET_ID environment variable not configured"
       ELSE IF ~env["GOOGLE_SERVICE_ACCOUNT_EMAIL"] \/ ~env["GOOGLE_PRIVATE_KEY"]
            THEN "Google Service Account credentials not configured"
            ELSE ""
  ELSE IF ~env["SHEET_ID"]
       THEN "SHEET_ID environment variable not configured"
       ELSE ""

\* the query parameters the model sends: ?id= (sos) and ?gid= (sheets)
SosParams == {Undefined, Some(<<"0">>), Some(<<"9", "x">>)}
HtmlParams == {Undefined, Some(<<"0">>), Some(<<"9">>)}

Request(i, param, state, awaits, started, resp) ==
  [param |-> param, state |-> state,
   awaits |-> awaits,      \* the run whose refreshPromise it awaits, or 0
   started |-> started,    \* history: it called fetchAllData
   expired |-> awaits # 0, \* history: isCacheExpired at its check
   seen |-> IF cache[i] = Null THEN 0 ELSE cache[i].sheets,
                           \* history: the snapshot it found on arrival
   inFlight |->            \* history: the run not yet settled on arrival
     IF runs[i] # <<>> /\ runs[i][Len(runs[i])].phase \notin {"done", "failed"}
     THEN Len(runs[i]) ELSE 0,
   resp |-> resp]

----------------------------------------------------------------------------
(* Tasks of the event loop: a request arrives                               *)

Arrived(i, request) == [reqs EXCEPT ![i] = Append(@, request)]

\* GET of route i with query parameter param, up to its return or to
\* `await refreshPromise`
Get(i, param) ==
  /\ micro = <<>>
  /\ Len(reqs["sos"]) + Len(reqs["html"]) < MaxRequests
  /\ IF ConfigError(i) # ""
     THEN /\ reqs' = Arrived(i, Request(i, param, "done", 0, FALSE,
                                   ErrorResponse(500, ConfigError(i), 0)))
          /\ UNCHANGED <<refreshPromise, runs>>
     ELSE IF isCacheExpired(cache[i], now)
     THEN IF NoRefreshPromise(refreshPromise[i])
          THEN /\ runs' = [runs EXCEPT ![i] = Append(@, NewRun(i))]
               /\ refreshPromise' =
                    [refreshPromise EXCEPT ![i] = Len(runs[i]) + 1]
               /\ reqs' = Arrived(i, Request(i, param, "awaiting",
                                        Len(runs[i]) + 1, TRUE, Null))
          ELSE /\ reqs' = Arrived(i, Request(i, param, "awaiting",
                                        refreshPromise[i], FALSE, Null))
               /\ UNCHANGED <<refreshPromise, runs>>
     ELSE /\ reqs' = Arrived(i, Request(i, param, "done", 0, FALSE,
                                   Respond(i, cache[i], runs[i], param, now)))
          /\ UNCHANGED <<refreshPromise, runs>>
  /\ UNCHANGED <<page, input, output, env, cache, micro, now>>

GetSos == \E param \in SosParams : Get("sos", param)

GetHtml == \E param \in HtmlParams : Get("html", param)

----------------------------------------------------------------------------
(* Tasks of the event loop: an upstream call of fetchAllData settles        *)

\* the per-tab fetches start: sos lines 104-107, sheets lines 69-71
WithTabs(run, tabs) ==
  [run EXCEPT !.tabs = tabs,
              !.tabState = [k \in DOMAIN tabs |-> "fetch"],
              !.issued = Len(tabs)]

\* history: the provider answered the tab list request (listed = "ok") or
\* failed it (listed = "failed"): what happened upstream, whatever the
\* handler makes of it
Listed(run, answered) ==
  [run EXCEPT !.listed =
     IF answered /\ run.listed # "failed" THEN "ok" ELSE "failed"]

\* sos lines 97-102: `await getSheetTabs(sheetId)` settles
SosTabsSettle(g) ==
  /\ micro = <<>>
  /\ g \in DOMAIN runs["sos"]
  /\ runs["sos"][g].phase = "tabs"
  /\ \/ \E e \in SosErrors :
          SetRun("sos", g, Rejected(Listed(runs["sos"][g], FALSE), e))
     \/ \E sheets \in SosSpreadsheets :
          LET tabsData == getSheetTabs(sheets)
              tabs == [k \in DOMAIN tabsData |->
                         [name |-> tabsData[k].title,
                          id |-> tabsData[k].sheetId]]
              run == [WithTabs(Listed(runs["sos"][g], TRUE), tabs)
                        EXCEPT !.phase = "sheets"]
          IN SetRun("sos", g, Completed(g, run, now))
  /\ UNCHANGED <<page, input, output, env, cache, refreshPromise, reqs, now>>

TabDone(run, k) == [run EXCEPT !.tabState[k] = "done"]

\* no catch block: the failure of tab k rejects Promise.all
SosTabFailedUncaught(run, k) ==
  [run EXCEPT !.phase = "rejected", !.err = "tab fetch failed"]

\* sos lines 113-116: the catch block of tab k
SosTabFailed(run, k) ==
  [TabDone(run, k) EXCEPT !.sheets = MapSet(run.sheets, run.tabs[k].id, <<>>)]

\* sos lines 109-116: `await getSheetData(...)` of tab k settles
SosSheetSettle(g, k) ==
  /\ micro = <<>>
  /\ g \in DOMAIN runs["sos"]
  /\ runs["sos"][g].phase = "sheets"
  /\ k \in DOMAIN runs["sos"][g].tabs
  /\ runs["sos"][g].tabState[k] = "fetch"
  /\ LET run == runs["sos"][g]
         id == run.tabs[k].id
     IN \/ \E rows \in SosSheetRows :
             SetRun("sos", g, Completed(g,
               [TabDone(run, k) EXCEPT
                  !.sheets = MapSet(run.sheets, id, rows),
                  !.fetched = MapSet(run.fetched, k, rows)], now))
        \/ SetRun("sos", g, Completed(g, SosTabFailed(run, k), now))
  /\ UNCHANGED <<page, input, output, env, cache, refreshPromise, reqs, now>>

MainPageError(status) ==
  IF status = 404 THEN "Failed to fetch main page: 404"
  ELSE "Failed to fetch main page"

\* sheets lines 54-57: `await fetch(mainUrl)` settles
HtmlMainSettle(g) ==
  /\ micro = <<>>
  /\ g \in DOMAIN runs["html"]
  /\ runs["html"][g].phase = "main"
  /\ LET run == runs["html"][g]
     IN \/ \E e \in FetchErrors :
             SetRun("html", g, Rejected(Listed(run, FALSE), e))
        \/ \E status \in HttpStatuses :
             LET answered == Listed(run, status \in 200..299)
             IN IF ~ResponseOk(status)
                THEN SetRun("html", g,
                            Rejected(answered, MainPageError(status)))
                ELSE SetRun("html", g,
                            [answered EXCEPT !.phase = "mainText"])
  /\ UNCHANGED <<page, input, output, env, cache, refreshPromise, reqs, now>>

\* the check left out
NoSheetsFoundUnchecked(tabs) == FALSE

\* `if (tabs.length === 0)`, sheets line 64
NoSheetsFound(tabs) == Len(tabs) = 0

\* sheets lines 59-71: `await mainResponse.text()` settles
HtmlMainTextSettle(g) ==
  /\ micro = <<>>
  /\ g \in DOMAIN runs["html"]
  /\ runs["html"][g].phase = "mainText"
  /\ LET run == runs["html"][g]
     IN \/ \E e \in FetchErrors :
             SetRun("html", g, Rejected(Listed(run, FALSE), e))
        \/ \E mainHtml \in MainDocs :
             LET tabs == parseSheetTabs(mainHtml)
             IN IF NoSheetsFound(tabs)
                THEN SetRun("html", g,
                       Rejected(Listed(run, TRUE),
                                "No sheets found in spreadsheet"))
                ELSE SetRun("html", g, Completed(g,
                       [WithTabs(Listed(run, TRUE), tabs)
                          EXCEPT !.phase = "sheets"], now))
  /\ UNCHANGED <<page, input, output, env, cache, refreshPromise, reqs, now>>

\* sheets lines 74-78 and 82-84: `await fetch(tab.pageUrl)` of tab k settles
HtmlTabSettle(g, k) ==
  /\ micro = <<>>
  /\ g \in DOMAIN runs["html"]
  /\ runs["html"][g].phase = "sheets"
  /\ k \in DOMAIN runs["html"][g].tabs
  /\ runs["html"][g].tabState[k] = "fetch"
  /\ LET run == runs["html"][g]
     IN \/ \E e \in FetchErrors :
             SetRun("html", g, Completed(g, TabDone(run, k), now))
        \/ \E status \in HttpStatuses :
             IF ~ResponseOk(status)
             THEN SetRun("html", g, Completed(g, TabDone(run, k), now))
             ELSE SetRun("html", g, [run EXCEPT !.tabState[k] = "text"])
  /\ UNCHANGED <<page, input, output, env, cache, refreshPromise, reqs, now>>

\* sheets lines 79-84: `await res.text()` of tab k settles
HtmlTabTextSettle(g, k) ==
  /\ micro = <<>>
  /\ g \in DOMAIN runs["html"]
  /\ runs["html"][g].phase = "sheets"
  /\ k \in DOMAIN runs["html"][g].tabs
  /\ runs["html"][g].tabState[k] = "text"
  /\ LET run == runs["html"][g]
         gid == run.tabs[k].gid
     IN \/ \E e \in FetchErrors :
             SetRun("html", g, Completed(g, TabDone(run, k), now))
        \/ \E html \in TabDocs :
             SetRun("html", g, Completed(g,
               [TabDone(run, k) EXCEPT
                  !.sheets = MapSet(run.sheets, gid, rewriteUrls(html)),
                  !.fetched = MapSet(run.fetched, k, html)], now))
  /\ UNCHANGED <<page, input, output, env, cache, refreshPromise, reqs, now>>

----------------------------------------------------------------------------
(* Microtasks: the promise chain of lines 154-165 (sos), 115-127 (sheets),  *)
(* and the requests that await its last promise                             *)

\* the assignment made only while the cache is empty
PublishKeepsOld(old, newCache) == IF old = Null THEN newCache ELSE old

\* `cache = newCache`
Publish(old, newCache) == newCache

\* `.then((newCache) => { cache = newCache })`: skipped on rejection
ThenStep ==
  /\ micro # <<>>
  /\ micro[1].kind = "then"
  /\ LET i == micro[1].inst
         g == micro[1].run
         run == runs[i][g]
     IN /\ IF run.phase = "fulfilled"
           THEN /\ cache' = [cache EXCEPT ![i] = Publish(@, run.value)]
                /\ runs' = [runs EXCEPT ![i][g].phase = "thenOk",
                                        ![i][g].published = TRUE]
           ELSE /\ cache' = cache
                /\ runs' = [runs EXCEPT ![i][g].phase = "thenErr"]
        /\ micro' = Append(Tail(micro), Job("catch", i, g))
  /\ UNCHANGED <<page, input, output, env, refreshPromise, reqs, now>>

\* the condition inverted, always true, never true
RethrowsInverted(c) == c # Null
RethrowsAlways(c) == TRUE
RethrowsNever(c) == FALSE

\* `if (!cache) throw err`
Rethrows(c) == c = Null

\* `.catch((err) => { if (!cache) throw err })`: skipped on fulfilment
CatchStep ==
  /\ micro # <<>>
  /\ micro[1].kind = "catch"
  /\ LET i == micro[1].inst
         g == micro[1].run
         run == runs[i][g]
     IN /\ runs' = [runs EXCEPT ![i][g].phase =
                      IF run.phase = "thenErr" /\ Rethrows(cache[i])
                      THEN "catchErr" ELSE "catchOk"]
        /\ micro' = Append(Tail(micro), Job("finally", i, g))
  /\ UNCHANGED <<page, input, output, env, cache, refreshPromise, reqs, now>>

\* the requests that await run g of route i, in the order they arrived
RECURSIVE Awaiting(_, _, _)
Awaiting(i, g, r) ==
  IF r > Len(reqs[i]) THEN <<>>
  ELSE IF reqs[i][r].state = "awaiting" /\ reqs[i][r].awaits = g
       THEN <<[kind |-> "resume", inst |-> i, run |-> g, req |-> r]>>
              \o Awaiting(i, g, r + 1)
       ELSE Awaiting(i, g, r + 1)

\* the assignment left out
ResetPromiseSkipped(p) == p

\* `refreshPromise = null`
ResetPromise(p) == 0

\* `.finally(() => { refreshPromise = null })`; refreshPromise, the promise
\* finally() returned, settles as the catch link did and wakes its awaiters
FinallyStep ==
  /\ micro # <<>>
  /\ micro[1].kind = "finally"
  /\ LET i == micro[1].inst
         g == micro[1].run
         run == runs[i][g]
     IN /\ refreshPromise' = [refreshPromise EXCEPT ![i] = ResetPromise(@)]
        /\ runs' = [runs EXCEPT ![i][g].phase =
                      IF run.phase = "catchErr" THEN "failed" ELSE "done"]
        /\ micro' = Tail(micro) \o Awaiting(i, g, 1)
  /\ UNCHANGED <<page, input, output, env, cache, reqs, now>>

\* a request resumes after `await refreshPromise`: sos lines 168-216,
\* sheets lines 131-182.  Every error of the model is an Error object, so
\* the catch block answers with its message.
ResumeStep ==
  /\ micro # <<>>
  /\ micro[1].kind = "resume"
  /\ LET i == micro[1].inst
         g == micro[1].run
         r == micro[1].req
     IN reqs' = [reqs EXCEPT ![i][r].state = "done",
                  ![i][r].resp =
                    IF runs[i][g].phase = "failed"
                    THEN ErrorResponse(500, runs[i][g].err, 0)
                    ELSE Respond(i, cache[i], runs[i], reqs[i][r].param, now)]
  /\ micro' = Tail(micro)
  /\ UNCHANGED <<page, input, output, env, cache, refreshPromise, runs, now>>

\* time passes between two tasks
Tick ==
  /\ micro = <<>>
  /\ TickCount(now) < MaxTicks
  /\ \E d \in TimeSteps : now' = now + d
  /\ UNCHANGED <<page, input, output, env, cache, refreshPromise, runs, reqs, micro>>

----------------------------------------------------------------------------

Init ==
  /\ env \in EnvChoices
  /\ cache = [i \in Instances |-> Null]
  /\ refreshPromise = [i \in Instances |-> 0]
  /\ runs = [i \in Instances |-> <<>>]
  /\ reqs = [i \in Instances |-> <<>>]
  /\ micro = <<>>
  /\ now = 0
  /\ input = <<>>
  /\ output = Null
  /\ page = Null

Next ==
  \/ GetSos
  \/ GetHtml
  \/ \E g \in 1..MaxRequests : SosTabsSettle(g)
  \/ \E g \in 1..MaxRequests, k \in 1..2 : SosSheetSettle(g, k)
  \/ \E g \in 1..MaxRequests : HtmlMainSettle(g)
  \/ \E g \in 1..MaxRequests : HtmlMainTextSettle(g)
  \/ \E g \in 1..MaxRequests, k \in 1..2 : HtmlTabSettle(g, k)
  \/ \E g \in 1..MaxRequests, k \in 1..2 : HtmlTabTextSettle(g, k)
  \/ ThenStep
  \/ CatchStep
  \/ FinallyStep
  \/ ResumeStep
  \/ Tick

Spec == Init /\ [][Next]_vars

----------------------------------------------------------------------------
(* Properties                                                               *)

\* the promise refreshPromise held for this run has settled
Settled(run) == run.phase \in {"done", "failed"}

\* fetchAllData threw
RunRejected(run) == run.err # ""

Done(i) == {r \in DOMAIN reqs[i] : reqs[i][r].state = "done"}

\* the requests that awaited run g of route i and have been answered
Answered(i, g) == {r \in Done(i) : reqs[i][r].awaits = g}

\* the tab identifiers of a tab list
TabKeys(i, tabs) ==
  IF i = "sos" THEN {tabs[k].id : k \in DOMAIN tabs}
  ELSE {tabs[k].gid : k \in DOMAIN tabs}

\* the identifier a keyed read asks for is in the tab list
KeyListed(i, param, tabs) ==
  IF i = "sos"
  THEN /\ ~parseIntIsNaN(param.value)
       /\ parseInt(param.value) \in TabKeys(i, tabs)
  ELSE param.value \in TabKeys(i, tabs)

\* C1: per route, at most one refresh is unsettled at any time, and a
\* request that finds the cache expired while a refresh is unsettled calls
\* fetchAllData no second time: it awaits the promise of that refresh.
C1_SingleFlight ==
  \A i \in Instances :
    /\ Cardinality({g \in DOMAIN runs[i] : ~Settled(runs[i][g])}) <= 1
    /\ Len(runs[i]) = Cardinality({r \in DOMAIN reqs[i] : reqs[i][r].started})
    /\ \A r \in DOMAIN reqs[i] :
         reqs[i][r].expired /\ reqs[i][r].inFlight # 0
           => ~reqs[i][r].started /\ reqs[i][r].awaits = reqs[i][r].inFlight
    /\ refreshPromise[i] # 0
         => /\ refreshPromise[i] \in DOMAIN runs[i]
            /\ ~Settled(runs[i][refreshPromise[i]])

\* a request waits for a refresh that another request started
C1_Witness ==
  \E i \in Instances : \E r \in DOMAIN reqs[i] :
    /\ reqs[i][r].state = "awaiting"
    /\ ~reqs[i][r].started
    /\ reqs[i][r].inFlight # 0

\* C2: the requests that arrive while the cache is expired and before the
\* refresh settles share one call of fetchAllData, and once answered they
\* are all served the snapshot that refresh published, or all the snapshot
\* that was there before it, or all a 500 with the error of that refresh.
C2_OneRefreshOneOutcome ==
  \A i \in Instances : \A g \in DOMAIN runs[i] :
    LET run == runs[i][g]
        readers == {r \in DOMAIN reqs[i] : reqs[i][r].awaits = g}
        resp(r) == reqs[i][r].resp
    IN /\ Cardinality({r \in readers : reqs[i][r].started}) = 1
       /\ \A r \in DOMAIN reqs[i] :
            reqs[i][r].expired /\ reqs[i][r].inFlight = g => r \in readers
       /\ Answered(i, g) # {} =>
            \/ /\ run.published
               /\ \A r \in Answered(i, g) :
                    resp(r).status # 500 /\ resp(r).from = g
            \/ /\ RunRejected(run) /\ run.prior # Null
               /\ \A r \in Answered(i, g) :
                    resp(r).status # 500 /\ resp(r).from = run.prior.sheets
            \/ /\ RunRejected(run) /\ run.prior = Null
               /\ \A r \in Answered(i, g) :
                    resp(r).status = 500 /\ resp(r).error = run.err

\* two requests that awaited the same refresh have been answered
C2_Witness ==
  \E i \in Instances : \E g \in DOMAIN runs[i] :
    Cardinality(Answered(i, g)) >= 2

\* C3 as stated: when a refresh fails and a previous snapshot exists, the
\* snapshot is unchanged, the refresh state is Idle again, and every
\* request that awaited the refresh gets a 200 built from that snapshot.
C3_FailureServes200 ==
  \A i \in Instances : \A g \in DOMAIN runs[i] :
    LET run == runs[i][g]
    IN RunRejected(run) /\ run.prior # Null /\ Settled(run)
         => /\ g = Len(runs[i])
                 => /\ cache[i] = run.prior
                    /\ runs[i][cache[i].sheets].sheets = run.priorSheets
                    /\ refreshPromise[i] = 0
            /\ \A r \in Answered(i, g) :
                 /\ reqs[i][r].resp.status = 200
                 /\ reqs[i][r].resp.from = run.prior.sheets

\* C3 amended: ... every request that awaited the refresh gets the answer
\* the previous snapshot gives it, 200 or the 404 of an identifier it does
\* not list, never a 500.
C3_FailureServesPrior ==
  \A i \in Instances : \A g \in DOMAIN runs[i] :
    LET run == runs[i][g]
    IN RunRejected(run) /\ run.prior # Null /\ Settled(run)
         => /\ run.phase = "done"
            /\ g = Len(runs[i])
                 => /\ cache[i] = run.prior
                    /\ runs[i][cache[i].sheets].sheets = run.priorSheets
                    /\ refreshPromise[i] = 0
            /\ \A r \in Answered(i, g) :
                 /\ reqs[i][r].resp.status \in {200, 404}
                 /\ reqs[i][r].resp.from = run.prior.sheets
                 /\ reqs[i][r].resp =
                      Respond(i, run.prior,
                              [runs[i] EXCEPT
                                 ![run.prior.sheets].sheets = run.priorSheets],
                              reqs[i][r].param,
                              run.prior.timestamp
                                + 1000 * reqs[i][r].resp.cacheAge)

\* a request has been answered after the refresh it awaited failed with a
\* snapshot in place
C3_Witness ==
  \E i \in Instances : \E g \in DOMAIN runs[i] :
    /\ RunRejected(runs[i][g]) /\ runs[i][g].prior # Null
    /\ Answered(i, g) # {}

\* C4: when a refresh fails and no snapshot was ever published, every
\* request that awaited it gets a 500 with the message of the refresh
\* error, the cache stays empty and the refresh state is Idle again.
C4_FailureWithoutSnapshot ==
  \A i \in Instances : \A g \in DOMAIN runs[i] :
    LET run == runs[i][g]
    IN RunRejected(run) /\ run.prior = Null /\ Settled(run)
         => /\ run.phase = "failed"
            /\ g = Len(runs[i]) => cache[i] = Null /\ refreshPromise[i] = 0
            /\ \A r \in Answered(i, g) :
                 /\ reqs[i][r].resp.status = 500
                 /\ reqs[i][r].resp.error = run.err

\* a request has been answered after the refresh it awaited failed on an
\* empty cache
C4_Witness ==
  \E i \in Instances : \E g \in DOMAIN runs[i] :
    /\ RunRejected(runs[i][g]) /\ runs[i][g].prior = Null
    /\ Answered(i, g) # {}

\* the Map of the snapshot c of route i
SheetsOf(i, c) == runs[i][c.sheets].sheets

\* C5: in every published snapshot the keys of the payload map are exactly
\* the identifiers of its tab list; a tab whose fetch failed has an entry.
C5_KeysAreTabs ==
  \A i \in Instances :
    cache[i] # Null
      => DOMAIN SheetsOf(i, cache[i]) = TabKeys(i, cache[i].tabs)

\* the answers served from a snapshot to a keyed read
KeyedAnswers(i) ==
  {r \in Done(i) : Truthy(reqs[i][r].param) /\ reqs[i][r].resp.from # 0}

\* C6: a keyed read for an identifier that the snapshot it is served from
\* lists is never answered 404.
C6_ListedKeyFound ==
  \A i \in Instances : \A r \in KeyedAnswers(i) :
    KeyListed(i, reqs[i][r].param, runs[i][reqs[i][r].resp.from].tabs)
      => reqs[i][r].resp.status # 404

\* the step answers request r of route i with a 404 for its key
AnswersNotFound(i, r) ==
  /\ r \in DOMAIN reqs'[i]
  /\ reqs'[i][r].state = "done"
  /\ r \in DOMAIN reqs[i] => reqs[i][r].state # "done"
  /\ Truthy(reqs'[i][r].param)
  /\ reqs'[i][r].resp.status = 404

\* C7: a keyed read for an identifier that the snapshot it is served from
\* does not list is answered 404, and the step that answers it leaves the
\* snapshot, its tab list and its payload map as they were.
C7_UnlistedKeyNotFound ==
  /\ [](\A i \in Instances : \A r \in KeyedAnswers(i) :
         ~KeyListed(i, reqs[i][r].param, runs[i][reqs[i][r].resp.from].tabs)
           => reqs[i][r].resp.status = 404)
  /\ [][\A i \in Instances : \A r \in 1..MaxRequests :
          AnswersNotFound(i, r)
            => /\ cache'[i] = cache[i]
               /\ cache[i] # Null
                    => runs'[i][cache[i].sheets] = runs[i][cache[i].sheets]]_vars

\* a keyed read for an identifier the snapshot does not list was answered
\* from a snapshot that has tabs
C7_Witness ==
  \E i \in Instances : \E r \in KeyedAnswers(i) :
    /\ runs[i][reqs[i][r].resp.from].tabs # <<>>
    /\ ~KeyListed(i, reqs[i][r].param, runs[i][reqs[i][r].resp.from].tabs)

\* C8: the snapshot readers see is the object one completed refresh
\* returned: its tab list and its payload map come from the same refresh,
\* whose tab list fetch and per-tab fetches have all settled; every answer
\* is built from such a snapshot.
C8_SnapshotWhole ==
  \A i \in Instances :
    /\ cache[i] # Null
         => /\ cache[i].tabsOf = cache[i].sheets
            /\ cache[i] = runs[i][cache[i].sheets].value
            /\ LET run == runs[i][cache[i].sheets]
               IN /\ run.listed = "ok"
                  /\ DOMAIN run.tabState = DOMAIN run.tabs
                  /\ \A k \in DOMAIN run.tabState : run.tabState[k] = "done"
    /\ \A r \in Done(i) :
         LET resp == reqs[i][r].resp
         IN resp.from # 0
              => /\ runs[i][resp.from].published
                 /\ \A k \in DOMAIN runs[i][resp.from].tabState :
                      runs[i][resp.from].tabState[k] = "done"
                 /\ (resp.status = 200 /\ Truthy(reqs[i][r].param))
                      => resp.tabsFrom = resp.from

\* a keyed read was answered 200 from the snapshot of a second refresh
C8_Witness ==
  \E i \in Instances : \E r \in KeyedAnswers(i) :
    reqs[i][r].resp.status = 200 /\ reqs[i][r].resp.from >= 2

\* the payload the cache keeps for what a tab fetch returned
Stored(i, payload) == IF i = "sos" THEN payload ELSE rewriteUrls(payload)

TabKey(i, tab) == IF i = "sos" THEN tab.id ELSE tab.gid

\* run has published a snapshot that holds what its tabs fetched
PublishedWithPayloads(i, run) ==
  /\ run.published
  /\ \A k \in DOMAIN run.fetched :
       /\ TabKey(i, run.tabs[k]) \in DOMAIN run.sheets
       /\ run.sheets[TabKey(i, run.tabs[k])] = Stored(i, run.fetched[k])

\* C9 as stated: a refresh whose tab list was fetched succeeds and
\* publishes a snapshot, whatever per-tab fetches fail, and the snapshot
\* holds the payload of every tab whose fetch succeeded.
C9_ListedRefreshPublishes ==
  \A i \in Instances : \A g \in DOMAIN runs[i] :
    LET run == runs[i][g]
    IN run.listed = "ok"
         => /\ ~RunRejected(run)
            /\ Settled(run) => PublishedWithPayloads(i, run)

\* C9 amended: ... and, in the HTML cache, lists at least one tab ...
C9_NonEmptyListPublishes ==
  \A i \in Instances : \A g \in DOMAIN runs[i] :
    LET run == runs[i][g]
    IN run.listed = "ok" /\ (i = "html" => run.tabs # <<>>)
         => /\ ~RunRejected(run)
            /\ Settled(run) => PublishedWithPayloads(i, run)

\* a refresh has published although one of its tabs failed and another one
\* was fetched
C9_Witness ==
  \E i \in Instances : \E g \in DOMAIN runs[i] :
    LET run == runs[i][g]
    IN /\ Settled(run) /\ run.published
       /\ DOMAIN run.fetched # {}
       /\ DOMAIN run.fetched # DOMAIN run.tabs

\* C10: a refresh whose tab list fetch failed issues no per-tab fetch and
\* publishes no snapshot: it fails.
C10_ListFailureFatal ==
  \A i \in Instances : \A g \in DOMAIN runs[i] :
    LET run == runs[i][g]
    IN run.listed = "failed"
         => /\ RunRejected(run)
            /\ run.issued = 0
            /\ run.value = Null
            /\ ~run.published
            /\ cache[i] # Null => cache[i].sheets # g

\* a refresh whose tab list fetch failed has settled
C10_Witness ==
  \E i \in Instances : \E g \in DOMAIN runs[i] :
    runs[i][g].listed = "failed" /\ Settled(runs[i][g])

\* route i has the configuration its handler asks for
Configured(i) ==
  IF i = "sos"
  THEN /\ env["SOS_SHEET_ID"]
       /\ env["GOOGLE_SERVICE_ACCOUNT_EMAIL"]
       /\ env["GOOGLE_PRIVATE_KEY"]
  ELSE env["SHEET_ID"]

\* the step is the arrival of request r of route i
Arrives(i, r) == r = Len(reqs[i]) + 1 /\ Len(reqs'[i]) = r

\* what a response carries besides the age of the snapshot
Body(resp) ==
  IF resp.status = 200 THEN [resp EXCEPT !.cacheAge = 0] ELSE resp

\* C11: a read of a configured route starts or joins a refresh exactly when
\* the cache is empty or the snapshot is older than CACHE_TTL (5 minutes):
\* at age CACHE_TTL or less it makes no upstream call and is answered from
\* the snapshot; two reads of the same key that are served from the same
\* snapshot get the same tab list and the same payload.
C11_RefreshIffExpired ==
  /\ [][\A i \in Instances : \A r \in 1..MaxRequests :
          Arrives(i, r) /\ Configured(i)
            => LET q == reqs'[i][r]
                   expired == \/ cache[i] = Null
                              \/ now - cache[i].timestamp > 5 * 60 * 1000
               IN /\ expired <=> q.awaits # 0
                  /\ expired
                       => /\ q.state = "awaiting"
                          /\ refreshPromise'[i] = q.awaits
                          /\ ~Settled(runs'[i][q.awaits])
                          /\ q.started <=> refreshPromise[i] = 0
                  /\ ~expired
                       => /\ runs' = runs
                          /\ refreshPromise' = refreshPromise
                          /\ q.state = "done"
                          /\ q.resp.from = cache[i].sheets]_vars
  /\ [](\A i \in Instances : \A r1, r2 \in Done(i) :
         /\ reqs[i][r1].param = reqs[i][r2].param
         /\ reqs[i][r1].resp.from # 0
         /\ reqs[i][r1].resp.from = reqs[i][r2].resp.from
         => Body(reqs[i][r1].resp) = Body(reqs[i][r2].resp))

\* a read found a snapshot of age exactly CACHE_TTL and was answered from it
\* without a refresh, as the read before it was
C11_Witness ==
  \E i \in Instances : \E r1, r2 \in Done(i) :
    /\ r1 < r2
    /\ reqs[i][r2].awaits = 0
    /\ reqs[i][r2].resp.status = 200
    /\ reqs[i][r2].resp.cacheAge = 300
    /\ reqs[i][r1].resp.from = reqs[i][r2].resp.from
    /\ reqs[i][r1].param = reqs[i][r2].param

\* the step is the then handler of run g of route i taking its value
Publishes(i, g) ==
  /\ g \in DOMAIN runs[i]
  /\ runs[i][g].phase = "fulfilled"
  /\ runs'[i][g].phase = "thenOk"

\* C12: when a refresh succeeds its snapshot replaces the one before, of
\* age zero at that moment; once its promise has settled refreshPromise is
\* null again, and a read that then finds the snapshot of age CACHE_TTL or
\* less starts no refresh and is answered from it.
C12_SuccessPublishesFresh ==
  /\ [][\A i \in Instances : \A g \in 1..MaxRequests :
          Publishes(i, g)
            => /\ cache'[i] = runs[i][g].value
               /\ cache'[i].sheets = g
               /\ cache'[i].timestamp = now
               /\ runs'[i][g].published]_vars
  /\ [](\A i \in Instances : \A g \in DOMAIN runs[i] :
         Settled(runs[i][g]) /\ runs[i][g].published
           => /\ refreshPromise[i] # g
              /\ g = Len(runs[i])
                   => refreshPromise[i] = 0 /\ cache[i] = runs[i][g].value)
  /\ [][\A i \in Instances : \A r \in 1..MaxRequests :
          /\ Arrives(i, r) /\ Configured(i)
          /\ cache[i] # Null
          /\ now - cache[i].timestamp <= 5 * 60 * 1000
          => /\ runs' = runs /\ refreshPromise' = refreshPromise
             /\ ~reqs'[i][r].started
             /\ reqs'[i][r].resp.from = cache[i].sheets]_vars

\* after a refresh published its snapshot, the next read arrived within
\* CACHE_TTL and was answered from that snapshot without a refresh
C12_Witness ==
  \E i \in Instances : \E r \in Done(i) :
    /\ r > 1
    /\ reqs[i][r].awaits = 0
    /\ reqs[i][r].seen # 0
    /\ runs[i][reqs[i][r].seen].published
    /\ reqs[i][r].resp.from = reqs[i][r].seen
    /\ Len(runs[i]) = reqs[i][r].seen

\* C13: a request of a route whose configuration is missing (SOS_SHEET_ID
\* or a service-account credential for sos, SHEET_ID for sheets) is answered
\* 500 at once; the step changes neither cache nor refreshPromise and calls
\* fetchAllData for neither route, and the answer is built from no snapshot.
C13_MissingConfiguration ==
  /\ [][\A i \in Instances : \A r \in 1..MaxRequests :
          Arrives(i, r) /\ ~Configured(i)
            => /\ reqs'[i][r].state = "done"
               /\ reqs'[i][r].resp.status = 500
               /\ reqs'[i][r].resp.from = 0
               /\ reqs'[i][r].awaits = 0
               /\ ~reqs'[i][r].started
               /\ cache' = cache
               /\ refreshPromise' = refreshPromise
               /\ runs' = runs
               /\ micro' = micro]_vars
  /\ [](\A i \in Instances :
         ~Configured(i)
           => cache[i] = Null /\ refreshPromise[i] = 0 /\ runs[i] = <<>>)

\* a request of a route without configuration was answered while the other
\* route had a refresh in flight
C13_Witness ==
  \E i, j \in Instances :
    /\ ~Configured(i)
    /\ \E r \in Done(i) : reqs[i][r].resp.status = 500
    /\ refreshPromise[j] # 0

\* no call of fetchAllData by route i is still running or being handled
Idle(i) == \A g \in DOMAIN runs[i] : Settled(runs[i][g])

\* a refresh of route i has failed
HasFailed(i) ==
  \E g \in DOMAIN runs[i] : Settled(runs[i][g]) /\ RunRejected(runs[i][g])

UpstreamSettles ==
  \/ \E g \in 1..MaxRequests : SosTabsSettle(g)
  \/ \E g \in 1..MaxRequests, k \in 1..2 : SosSheetSettle(g, k)
  \/ \E g \in 1..MaxRequests : HtmlMainSettle(g)
  \/ \E g \in 1..MaxRequests : HtmlMainTextSettle(g)
  \/ \E g \in 1..MaxRequests, k \in 1..2 : HtmlTabSettle(g, k)
  \/ \E g \in 1..MaxRequests, k \in 1..2 : HtmlTabTextSettle(g, k)

\* the event loop runs the microtask at the head of the queue
Microtask == ThenStep \/ CatchStep \/ FinallyStep \/ ResumeStep

\* Every upstream call is taken to settle, and the event loop runs every
\* queued microtask.
FairSpec == Spec /\ WF_vars(UpstreamSettles) /\ WF_vars(Microtask)

\* every refresh started so far has settled, refreshPromise is null and
\* every request received so far has been answered
Quiescent ==
  \A i \in Instances :
    /\ \A g \in DOMAIN runs[i] : Settled(runs[i][g])
    /\ refreshPromise[i] = 0
    /\ \A r \in DOMAIN reqs[i] : reqs[i][r].state = "done"

\* C15: if every upstream call settles, every refresh that was started
\* settles and leaves refreshPromise null, and every request that awaits
\* it is answered: whatever has been started, a state follows in which all
\* of it has ended.
C15_RefreshTerminates == []<>Quiescent

\* two requests have been answered after awaiting one refresh, which has
\* settled and left refreshPromise null
C15_Witness ==
  \E i \in Instances : \E g \in DOMAIN runs[i] :
    /\ Settled(runs[i][g])
    /\ refreshPromise[i] = 0
    /\ Cardinality(Answered(i, g)) = 2

\* the latest run of route i that has published a snapshot, 0 if none has
LastPublished(i) ==
  IF \E g \in DOMAIN runs[i] : runs[i][g].published
  THEN CHOOSE g \in DOMAIN runs[i] :
         /\ runs[i][g].published
         /\ \A h \in DOMAIN runs[i] : runs[i][h].published => h <= g
  ELSE 0

\* the step answers request r of route i
Answers(i, r) ==
  /\ r \in DOMAIN reqs'[i]
  /\ reqs'[i][r].state = "done"
  /\ r \in DOMAIN reqs[i] => reqs[i][r].state # "done"

\* C16: once a snapshot has been published the cache is never empty again
\* and holds the snapshot of the latest successful refresh; from then on a
\* request of the (configured) route is never answered 500, whatever
\* refreshes fail, and is answered from that snapshot.
C16_NeverEmptyAgain ==
  /\ [](\A i \in Instances :
         /\ LastPublished(i) = 0 <=> cache[i] = Null
         /\ LastPublished(i) # 0
              => cache[i] = runs[i][LastPublished(i)].value)
  /\ [][\A i \in Instances : cache[i] # Null => cache'[i] # Null]_vars
  /\ [][\A i \in Instances : \A r \in 1..MaxRequests :
          Answers(i, r) /\ LastPublished(i) # 0
            => /\ reqs'[i][r].resp.status # 500
               /\ reqs'[i][r].resp.from = LastPublished(i)]_vars

\* a request that awaited a refresh which failed after a snapshot had been
\* published was answered from that snapshot
C16_Witness ==
  \E i \in Instances : \E r \in Done(i) :
    LET g == reqs[i][r].awaits
    IN /\ g > 1
       /\ RunRejected(runs[i][g])
       /\ LastPublished(i) # 0
       /\ reqs[i][r].resp.status = 200
       /\ reqs[i][r].resp.from = LastPublished(i)

\* request q found a snapshot at its freshness check, older than CACHE_TTL
StaleRead(q) == q.expired /\ q.seen # 0

Resumes(i, r) ==
  /\ r \in DOMAIN reqs[i]
  /\ reqs[i][r].state = "awaiting"
  /\ reqs'[i][r].state = "done"

\* C25: a request that resumes after `await refreshPromise` without an
\* exception (the promise was not rejected) finds cache set, so no request
\* is answered 500 "Failed to load spreadsheet data".
C25_EmptyAfterAwaitUnreachable ==
  /\ [][\A i \in Instances : \A r \in 1..MaxRequests :
          Resumes(i, r) /\ runs[i][reqs[i][r].awaits].phase # "failed"
            => /\ cache[i] # Null
               /\ reqs'[i][r].resp.from = cache[i].sheets]_vars
  /\ [](\A i \in Instances : \A r \in Done(i) :
         reqs[i][r].resp.status = 500
           => reqs[i][r].resp.error # "Failed to load spreadsheet data")

\* of two requests that awaited refreshes, one resumed with an exception
\* and was answered 500 with the refresh's error, the other resumed
\* without one and was answered from a snapshot
C25_Witness ==
  \E i \in Instances : \E r1, r2 \in Done(i) :
    /\ reqs[i][r1].awaits # 0 /\ reqs[i][r2].awaits # 0
    /\ runs[i][reqs[i][r1].awaits].phase = "failed"
    /\ reqs[i][r1].resp.status = 500
    /\ reqs[i][r1].resp.error = runs[i][reqs[i][r1].awaits].err
    /\ runs[i][reqs[i][r2].awaits].phase = "done"
    /\ reqs[i][r2].resp.status = 200
    /\ cache[i] # Null

\* C26: every snapshot the HTML route publishes lists at least one tab, a
\* main page in which no tab is found failing the refresh with "No sheets
\* found in spreadsheet"; the structured route has no such check: a refresh
\* whose tab list is fetched and empty succeeds and publishes a snapshot
\* with no tab.
C26_EmptyTabList ==
  /\ cache["html"] # Null => cache["html"].tabs # <<>>
  /\ \A g \in DOMAIN runs["html"] :
       LET run == runs["html"][g]
       IN /\ run.published => run.tabs # <<>> /\ run.value.tabs # <<>>
          /\ run.listed = "ok" /\ run.phase # "mainText" /\ run.tabs = <<>>
               => /\ run.err = "No sheets found in spreadsheet"
                  /\ run.value = Null
                  /\ ~run.published
  /\ \A g \in DOMAIN runs["sos"] :
       LET run == runs["sos"][g]
       IN run.listed = "ok" /\ run.tabs = <<>>
            => /\ ~RunRejected(run)
               /\ Settled(run)
                    => /\ run.published
                       /\ run.value.tabs = <<>>
                       /\ cache["sos"] # Null

\* the HTML route has failed a refresh for want of tabs, and the structured
\* route holds a snapshot without any tab
C26_Witness ==
  /\ \E g \in DOMAIN runs["html"] :
       /\ Settled(runs["html"][g])
       /\ runs["html"][g].err = "No sheets found in spreadsheet"
  /\ cache["sos"] # Null
  /\ cache["sos"].tabs = <<>>

\* C27: a step of one route (a request, a step of a refresh it started, an
\* answer) leaves the other route's snapshot, refreshPromise, refreshes and
\* requests as they were; and a request that finds its route's cache
\* expired and no refresh of its route in flight starts one, whether or
\* not the other route has a refresh in flight.
C27_InstancesIndependent ==
  /\ [][\A i, j \in Instances :
          /\ i # j
          /\ \/ cache'[i] # cache[i]
             \/ refreshPromise'[i] # refreshPromise[i]
             \/ runs'[i] # runs[i]
             \/ reqs'[i] # reqs[i]
          => /\ cache'[j] = cache[j]
             /\ refreshPromise'[j] = refreshPromise[j]
             /\ runs'[j] = runs[j]
             /\ reqs'[j] = reqs[j]]_vars
  /\ [][\A i \in Instances : \A r \in 1..MaxRequests :
          /\ Arrives(i, r) /\ Configured(i)
          /\ cache[i] = Null \/ now - cache[i].timestamp > 5 * 60 * 1000
          /\ refreshPromise[i] = 0
          => /\ Len(runs'[i]) = Len(runs[i]) + 1
             /\ refreshPromise'[i] = Len(runs'[i])
             /\ reqs'[i][r].started
             /\ reqs'[i][r].awaits = Len(runs'[i])]_vars

\* each route has a refresh in flight, that of the HTML route started
\* while that of the structured route was in flight, and the structured
\* route's request has been answered from its snapshot while the HTML
\* route's refresh is still running
C27_Witness ==
  /\ refreshPromise["html"] # 0
  /\ ~Settled(runs["html"][1])
  /\ cache["html"] = Null
  /\ runs["sos"] # <<>> /\ runs["sos"][1].published
  /\ \E r \in Done("sos") : reqs["sos"][r].resp.status = 200

----------------------------------------------------------------------------
(* The row projector on its own: processSheetData applied to sheets built   *)
(* row by row                                                               *)

\* Bound of the sheets: the data rows under the header
MaxRows == 3

Stamp(year, month, day, gap, period, hour, minute, second) ==
  year \o <<Nian>> \o month \o <<Yue>> \o day \o <<Ri>> \o gap \o period
    \o hour \o <<":">> \o minute \o <<":">> \o second

Y2025 == <<"2", "0", "2", "5">>

\* 27 November 2025, 08:05:00, written without a space before the period
StampEarly ==
  Stamp(Y2025, <<"1", "1">>, <<"2", "7">>, <<>>, Morning,
        <<"8">>, <<"0", "5">>, <<"0", "0">>)

\* a year no Date holds
StampHuge ==
  Stamp(<<"9", "9", "9", "9", "9", "9">>, <<"1">>, <<"1">>, <<" ">>, Morning,
        <<"1">>, <<"0", "0">>, <<"0", "0">>)

\* 28 November 2025 in the generic form
StampIso == <<"2", "0", "2", "5", "-", "1", "1", "-", "2", "8">>

HelpStatus == <<"u6c42", "u6551">>

\* the data rows a sheet of the model is made of: cells in the order
\* timestamp, location, status, details, source
DataRows ==
  { <<HelpTimestamp, <<"1", "A">>, HelpStatus, <<"d">>, <<"s">>>>,
    <<StampEarly, <<"2", "B">>, SafeMarker>>,
    <<<<"?">>, <<"3", "C">>>>,
    <<StampIso, <<"4", "D">>, <<>>>>,
    <<StampHuge, <<"5", "E">>, HelpStatus>>,
    <<StampEarly, <<"6", "F">>, <<"u5df2">> \o SafeMarker \o <<"!">>>>,
    <<StampEarly, <<"7", "G">>, HelpStatus>> }

\* the header rows: the three required columns; all five; one required
\* column missing (status, timestamp, location); the columns in another
\* order; the required columns and the source column
Headers ==
  { <<KwTimestamp, <<"u6a13", "u5c64">>, KwStatus>>,
    <<KwTimestamp, KwLocation[2], KwStatus, KwSource>>,
    <<KwTimestamp, <<"A", "u5ea7", "/">> \o KwLocation[3], KwStatus,
      KwDetails, KwSource>>,
    <<KwTimestamp, KwLocation[1]>>,
    <<<<"x">>, KwLocation[2], KwStatus>>,
    <<KwTimestamp, <<"A", "u5ea7">>, KwStatus>>,
    <<KwLocation[2], KwStatus \o <<"?">>, <<"*">> \o KwTimestamp>> }

\* the routes at rest, every variable of the environment set
AtRest ==
  /\ env = [n \in EnvNames |-> TRUE]
  /\ cache = [i \in Instances |-> Null]
  /\ refreshPromise = [i \in Instances |-> 0]
  /\ runs = [i \in Instances |-> <<>>]
  /\ reqs = [i \in Instances |-> <<>>]
  /\ micro = <<>>
  /\ now = 0

ProjectorInit ==
  /\ AtRest
  /\ input \in {<<>>} \cup {<<header>> : header \in Headers}
  /\ output = Null
  /\ page = Null

\* the sheet gets one more row
AddRow ==
  /\ output = Null
  /\ input # <<>>
  /\ Len(input) <= MaxRows
  /\ \E row \in DataRows : input' = Append(input, row)
  /\ UNCHANGED <<page, output, loop>>

\* The keyed read of a snapshot whose only tab, of id 0, has these rows
\* (sos lines 181-200), items being what processSheetData returned
KeyedRead(rows, items) ==
  [RespondSos([timestamp |-> 0, tabs |-> <<[name |-> "Untitled", id |-> 0]>>,
               sheets |-> 1, tabsOf |-> 1],
              MapSet(<<>>, 0, rows), Some(<<"0">>), 0)
     EXCEPT !.items = items]

\* processSheetData(rows) returns, line 193, and the handler answers
Project ==
  /\ output = Null
  /\ \E items \in processSheetDataOutcomes(input) :
       output' = [items |-> items, response |-> KeyedRead(input, items)]
  /\ UNCHANGED <<page, input, loop>>

ProjectorNext == AddRow \/ Project

ProjectorSpec == ProjectorInit /\ [][ProjectorNext]_vars

\* processSheetData has returned
Projected == output # Null

\* some cell of the header contains one of the keywords
Resolved(header, keywords) ==
  \E c \in DOMAIN header : \E k \in DOMAIN keywords :
    Includes(header[c], keywords[k])

RequiredResolved(rows) ==
  /\ Len(rows) >= 2
  /\ Resolved(rows[1], <<KwTimestamp>>)
  /\ Resolved(rows[1], KwLocation)
  /\ Resolved(rows[1], <<KwStatus>>)

\* the cell of a row under the first header cell with one of the keywords
CellUnder(rows, row, keywords) ==
  CellOrEmpty(row, getColIndex(rows[1], keywords))

\* the data rows (their indexes in rows) whose status cell does not contain
\* the characters u5e73 u5b89
NotSafeRows(rows) ==
  {k \in 2..Len(rows) :
     ~Includes(CellUnder(rows, rows[k], <<KwStatus>>), <<"u5e73", "u5b89">>)}

\* C17: with the timestamp, location and status columns resolved,
\* processSheetData returns one record for each data row whose status cell
\* does not contain the safe marker, a row with an empty or missing status
\* cell included, and no record for any other row: no record's status
\* contains the marker.
C17_OneRecordPerUnsafeRow ==
  Projected /\ RequiredResolved(input)
    => /\ Len(output.items) = Cardinality(NotSafeRows(input))
       /\ \E f \in [DOMAIN output.items -> NotSafeRows(input)] :
            /\ \A k, l \in DOMAIN output.items : f[k] = f[l] => k = l
            /\ \A k \in DOMAIN output.items :
                 /\ output.items[k].status
                      = CellUnder(input, input[f[k]], <<KwStatus>>)
                 /\ output.items[k].location
                      = CellUnder(input, input[f[k]], KwLocation)
                 /\ output.items[k].timestamp
                      = CellUnder(input, input[f[k]], <<KwTimestamp>>)
       /\ \A k \in DOMAIN output.items :
            ~Includes(output.items[k].status, <<"u5e73", "u5b89">>)

\* a sheet with a row without a status cell, a row with an empty one and a
\* row whose status has the marker inside a longer text gave two records
C17_Witness ==
  /\ Projected /\ RequiredResolved(input)
  /\ Len(input) = 4
  /\ \E k \in 2..4 : Len(input[k]) = 2
  /\ \E k \in 2..4 : Len(input[k]) = 3 /\ input[k][3] = <<>>
  /\ \E k \in 2..4 : Len(input[k]) = 3 /\ Len(input[k][3]) = 4
  /\ Len(output.items) = 2

\* the timestamp denotes no instant: it neither matches the pattern of line
\* 31 with a date a Date holds, nor is a generic date
Unparsable(timestamp) ==
  /\ ~MatchDate(timestamp).ok \/ parseChineseDateIsNaN(timestamp)
  /\ ~IsIsoDate(timestamp)

\* C18: the records processSheetData returns are in non-increasing order of
\* timestampObj, the instant parsed from their timestamp; a record whose
\* timestamp cannot be parsed has the instant 0 and stands after every
\* record with a positive instant.
C18_SortedByInstant ==
  Projected
    => /\ \A k \in DOMAIN output.items : ~IsNaNItem(output.items[k])
       /\ \A k \in DOMAIN output.items :
            Unparsable(output.items[k].timestamp)
              => output.items[k].timestampObj = 0
       /\ \A k, l \in DOMAIN output.items :
            k < l => output.items[k].timestampObj
                       >= output.items[l].timestampObj

\* the sheet has a header row in which a required column is not found
MissingRequired(rows) ==
  /\ rows # <<>>
  /\ \/ ~Resolved(rows[1], <<KwTimestamp>>)
     \/ ~Resolved(rows[1], KwLocation)
     \/ ~Resolved(rows[1], <<KwStatus>>)

\* C19: when no header cell matches the timestamp keyword, or none a
\* location keyword, or none the status keyword, processSheetData returns
\* the empty sequence whatever the data rows are, and the keyed read of
\* that sheet answers 200 with no items.
C19_MissingColumnEmpty ==
  Projected /\ MissingRequired(input)
    => /\ output.items = <<>>
       /\ output.response.status = 200
       /\ output.response.items = <<>>
       /\ output.response.id = 0

\* a sheet of three data rows whose header has no status column was
\* projected and read
C19_Witness ==
  /\ Projected /\ MissingRequired(input)
  /\ Len(input) = 4
  /\ Resolved(input[1], <<KwTimestamp>>)
  /\ Resolved(input[1], KwLocation)
  /\ output.response.status = 200

\* C22: with the required columns resolved, when no header cell contains
\* the details keyword every record has details "", when none contains the
\* source keyword every record has source "", and the records are still one
\* for each data row that is not safe.
C22_OptionalColumnsDefault ==
  Projected /\ RequiredResolved(input)
    => /\ ~Resolved(input[1], <<KwDetails>>)
            => \A k \in DOMAIN output.items : output.items[k].details = <<>>
       /\ ~Resolved(input[1], <<KwSource>>)
            => \A k \in DOMAIN output.items : output.items[k].source = <<>>
       /\ ~Resolved(input[1], <<KwDetails>>)
            \/ ~Resolved(input[1], <<KwSource>>)
            => Len(output.items) = Cardinality(NotSafeRows(input))

\* a sheet with a source column and no details column was projected: the
\* row with five cells gave a record without details, its source the cell
\* under the source header
C22_Witness ==
  /\ Projected /\ RequiredResolved(input)
  /\ ~Resolved(input[1], <<KwDetails>>)
  /\ Resolved(input[1], <<KwSource>>)
  /\ \E k \in DOMAIN output.items :
       /\ output.items[k].location = <<"1", "A">>
       /\ output.items[k].details = <<>>
       /\ output.items[k].source = <<"d">>

----------------------------------------------------------------------------
(* The date parser on its own: parseChineseDate applied to timestamps       *)

\* Bound of the timestamps: the hours written in them are 0..MaxHour
MaxHour == 13

DigitChar(n) == CHOOSE c \in Digits : DigitVal(c) = n

\* the ways to write the number n < 100: plain, and with a leading zero
Numerals(n) ==
  IF n < 10 THEN {<<DigitChar(n)>>, <<"0", DigitChar(n)>>}
  ELSE {<<DigitChar(n \div 10), DigitChar(n % 10)>>}

\* timestamps of 27 November 2025 in the format of line 28
Timestamps ==
  {Stamp(Y2025, <<"1", "1">>, <<"2", "7">>, gap, period, hour, minute,
         <<"2", "6">>) :
     gap \in {<<>>, <<" ">>}, period \in {Morning, Afternoon},
     hour \in UNION {Numerals(h) : h \in 0..MaxHour},
     minute \in {<<"0", "0">>, <<"5", "9">>}}

\* other cells of a timestamp column
OtherDateTexts == {<<>>, <<"?">>, StampIso, StampHuge}

DateInit ==
  /\ AtRest
  /\ input \in Timestamps \cup OtherDateTexts
  /\ output = Null
  /\ page = Null

\* parseChineseDate(timestamp) returns, line 84
ParseDate ==
  /\ output = Null
  /\ output' = [instant |-> parseChineseDate(input)]
  /\ UNCHANGED <<page, input, loop>>

DateNext == ParseDate

DateSpec == DateInit /\ [][DateNext]_vars

\* C20: for a timestamp that matches the pattern of line 31 with an hour h
\* in 1..12, parseChineseDate builds the instant with the hour h + 12 when
\* the period is the afternoon and h < 12, with 0 when it is the morning
\* and h = 12, and with h otherwise: an hour in 0..23.
C20_TwelveHourClock ==
  LET m == MatchDate(input)
      h == DecimalValue(m.hour)
      hour24 == IF m.period = <<"u4e0b", "u5348">> /\ h < 12 THEN h + 12
                ELSE IF m.period = <<"u4e0a", "u5348">> /\ h = 12 THEN 0
                     ELSE h
  IN /\ output # Null
     /\ m.ok
     /\ ~parseChineseDateIsNaN(input)
     /\ h \in 1..12
     => /\ hour24 \in 0..23
        /\ output.instant
             = DateSeconds(DecimalValue(m.year), DecimalValue(m.month) - 1,
                           DecimalValue(m.day), hour24,
                           DecimalValue(m.minute), DecimalValue(m.second))

\* 12:59:26 in the morning was parsed: 59 minutes 26 seconds after the
\* midnight of Hong Kong, 16:00 UTC of the day before
C20_Witness ==
  /\ output # Null
  /\ input = Stamp(Y2025, <<"1", "1">>, <<"2", "7">>, <<" ">>, Morning,
                   <<"1", "2">>, <<"5", "9">>, <<"2", "6">>)
  /\ output.instant % 86400 = (16 * 3600) + (59 * 60) + 26

\* a text without a digit: it matches neither the pattern of line 31 nor a
\* date string that new Date reads
NoDateText(s) == \A k \in DOMAIN s : s[k] \notin Digits

\* C21: parseChineseDate returns for every input, a number or NaN, and for
\* an input that matches neither the pattern of line 31 nor a generic date
\* string what it returns is 0.
C21_NoMatchGivesZero ==
  output # Null
    => /\ parseChineseDateIsNaN(input) \/ output.instant \in Int
       /\ NoDateText(input) => output.instant = 0

\* the cell "?" was parsed
C21_Witness ==
  /\ output # Null
  /\ input = <<"?">>
  /\ ~MatchDate(input).ok
  /\ output.instant = 0

----------------------------------------------------------------------------
(* The URL rewriter on its own: rewriteUrls applied to markup built          *)
(* fragment by fragment                                                      *)

\* Bound of the markup: the fragments it is made of
MaxFragments == 3

\* href=" and src=" before a URL
HrefAttr == SubSeq(HrefDq, 1, Len(HrefDq) - 1)
SrcAttr == SubSeq(SrcDq, 1, Len(SrcDq) - 1)

\* pieces of a tab's page: the five root-relative forms of lines 41-45; a
\* style sheet at https://ssl.gstatic.com; a script at //ssl.gstatic.com;
\* a link that is already at the provider's origin; plain markup
Fragments ==
  { HrefDq \o <<"a", Quote>>,
    HrefSq \o <<"b", "'">>,
    SrcDq \o <<"c", Quote>>,
    SrcSq \o <<"d", "'">>,
    UrlParen \o <<"e", ")">>,
    HrefAttr \o GstaticAbsolute \o <<"/", "f", Quote>>,
    SrcAttr \o GstaticRelative \o <<"/", "g", Quote>>,
    HrefAttr \o DocsOrigin \o <<"h", Quote>>,
    <<"<", "p", ">">> }

\* the pages of at most n fragments
RECURSIVE PagesOf(_)
PagesOf(n) ==
  IF n = 0 THEN {<<>>}
  ELSE PagesOf(n - 1) \cup {p \o f : p \in PagesOf(n - 1), f \in Fragments}

\* the pages that can take one more fragment
Growing == PagesOf(MaxFragments - 1)

RewriteInit ==
  /\ AtRest
  /\ input = <<>>
  /\ output = Null
  /\ page = Null

\* the page gets one more fragment
AddFragment ==
  /\ output = Null
  /\ input \in Growing
  /\ \E f \in Fragments : input' = input \o f
  /\ UNCHANGED <<page, output, loop>>

\* rewriteUrls(html) returns, sheets line 80; twice is what rewriteUrls gives
\* for its own result
Rewrite ==
  /\ output = Null
  /\ output' = [once |-> rewriteUrls(input),
                twice |-> rewriteUrls(rewriteUrls(input))]
  /\ UNCHANGED <<page, input, loop>>

RewriteNext == AddFragment \/ Rewrite

RewriteSpec == RewriteInit /\ [][RewriteNext]_vars

\* the markup holds one of the five forms that lines 41-45 look for
HasRootRelative(html) ==
  \E pat \in {HrefDq, HrefSq, SrcDq, SrcSq, UrlParen} : Includes(html, pat)

\* C30: rewriteUrls changes only root-relative URLs, so markup without any
\* (its URLs absolute, as the one at https://ssl.gstatic.com) is returned
\* as it is, and rewriteUrls applied to its own result changes nothing.
C30_OnlyRootRelative ==
  output # Null
    => /\ ~HasRootRelative(input) => output.once = input
       /\ output.twice = output.once

\* ---------------------------------------------------------------------
\* The pages.  One page is mounted in a browser: Home (src/app/page.tsx) or
\* the SOS page.  `page` holds its React state, its two refs, the timers
\* the browser holds for it and the fetches it awaits.  A handler runs
\* with the render it causes and the effects of that render as one step.
\* The routes are seen from outside here: a fetch is answered with a
\* success or with a failure, in any order.

REFRESH_INTERVAL == 5 * 60 * 1000

\* how many times the user picks a tab, and the refresh timeout fires
MaxClicks == 1
MaxFirings == 1

\* how many runs of the countdown callback one step of the model stands for
Ticks == {150, 151}

\* the tabs /api/sheets answers with, and the tab lists of /api/sos
HomeTabs == <<[gid |-> "0"], [gid |-> "12"]>>
SosTabLists == {<<>>, <<[id |-> 0], [id |-> 7]>>}

\* the messages of a failed fetch: the route's error, the page's fallback,
\* the message of a rejected fetch
LoadFailed == "u8f09u5165u5931u6557"
NetworkError == "u7db2u7d61u932fu8aa4"
HomeErrors == {"Failed to load spreadsheet data", LoadFailed, NetworkError}
SosTabsErrors == {"Failed to load spreadsheet data", "Failed to fetch tabs"}
SosSheetErrors ==
  {"Failed to load spreadsheet data", "Failed to fetch sheet data"}

\* useState and useRef of Home, after the first render; lastUpdated is
\* kept as whether a date has been set, `last` records the step taken
HomeState ==
  [route |-> "home", mounted |-> TRUE,
   data |-> Null, error |-> Null, loading |-> TRUE, lastUpdated |-> FALSE,
   activeTab |-> "", iframeKey |-> 0, nextRefreshIn |-> 0,
   timerRef |-> 0, countdownRef |-> 0, timerTab |-> Null,
   timeouts |-> {}, intervals |-> {}, pending |-> {}, fetches |-> 0,
   clicks |-> 0, fired |-> 0, last |-> "mount"]

\* useState and useRef of the SOS page, after the first render
SosState ==
  [route |-> "sos", mounted |-> TRUE,
   tabs |-> <<>>, activeTabId |-> Null, sheetData |-> Null,
   error |-> Null, loading |-> TRUE, lastUpdated |-> FALSE,
   nextRefreshIn |-> 0,
   timerRef |-> 0, countdownRef |-> 0, timerTab |-> Null,
   timeouts |-> {}, intervals |-> {}, pending |-> {}, fetches |-> 0,
   clicks |-> 0, fired |-> 0, last |-> "mount"]

\* the id setTimeout or setInterval returns: one no live timer has
FreshTimer(live) ==
  CHOOSE n \in 1..(Cardinality(live) + 1) :
    n \notin live /\ \A m \in 1..(n - 1) : m \in live

\* clearTimeout(timerRef.current) and clearInterval(countdownRef.current)
ClearTimersNever(p) == p

ClearTimers(p) ==
  [p EXCEPT !.timeouts = @ \ {p.timerRef},
            !.intervals = @ \ {p.countdownRef}]

\* scheduleNextRefresh of the render whose active tab is `tab`
scheduleNextRefresh(p, tab) ==
  LET q == ClearTimers(p)
      interval == FreshTimer(q.timeouts \cup q.intervals)
      timeout == FreshTimer(q.timeouts \cup q.intervals \cup {interval})
  IN [q EXCEPT !.nextRefreshIn = REFRESH_INTERVAL \div 1000,
               !.countdownRef = interval,
               !.intervals = @ \cup {interval},
               !.timerRef = timeout,
               !.timeouts = @ \cup {timeout},
               !.timerTab = tab]

\* the auto-refresh effect running again: the cleanup of its last run,
\* then its body
TimersEffect(p, loaded, tab) ==
  IF loaded THEN scheduleNextRefresh(ClearTimers(p), tab)
  ELSE ClearTimers(p)

\* the countdown callback run k times: Math.max(0, prev - 1), k times over
CountdownBy(prev, k) == IF prev - k > 0 THEN prev - k ELSE 0

\* a fetch of the page settles
Settle(p, f, how) == [p EXCEPT !.pending = @ \ {f}, !.last = how]

\* Home: fetchTabs up to its first await
HomeFetchTabs(p) ==
  [p EXCEPT !.loading = TRUE, !.error = Null, !.fetches = @ + 1,
            !.pending = @ \cup
              {[n |-> p.fetches + 1, what |-> "tabs", tab |-> p.activeTab]}]

\* Home: the effects of the render after `old` became `new`
HomeEffects(old, new) ==
  LET fetched == IF new.activeTab # old.activeTab THEN HomeFetchTabs(new)
                 ELSE new
  IN IF new.data # old.data
     THEN TimersEffect(fetched, new.data # Null, Null)
     ELSE fetched

\* Home mounts: both effects run, and no data is loaded yet
HomeMount == HomeFetchTabs(HomeState)

\* Home: /api/sheets answered 200
HomeTabsOk(f) ==
  /\ page.route = "home"
  /\ f \in page.pending
  /\ page' =
       IF ~page.mounted THEN Settle(page, f, "dropped")
       ELSE HomeEffects(page,
              [Settle(page, f, "ok") EXCEPT
                 !.data = [tabs |-> HomeTabs, of |-> f.n],
                 !.lastUpdated = TRUE,
                 !.activeTab =
                   IF /\ Len(HomeTabs) > 0
                      /\ ~\E k \in 1..Len(HomeTabs) : HomeTabs[k].gid = f.tab
                   THEN HomeTabs[1].gid ELSE @,
                 !.iframeKey = @ + 1,
                 !.loading = FALSE])
  /\ UNCHANGED <<input, output, loop>>

\* Home: /api/sheets answered with an error status, or the fetch threw
HomeTabsFails(f, message) ==
  /\ page.route = "home"
  /\ f \in page.pending
  /\ page' =
       IF ~page.mounted THEN Settle(page, f, "dropped")
       ELSE HomeEffects(page,
              [Settle(page, f, "failed") EXCEPT
                 !.error = Some(message),
                 !.data = Null,
                 !.loading = FALSE])
  /\ UNCHANGED <<input, output, loop>>

\* Home: a click on a tab button
handleTabChange(gid) ==
  /\ page.route = "home"
  /\ page.mounted
  /\ page.clicks < MaxClicks
  /\ page.data # Null
  /\ \E k \in 1..Len(page.data.tabs) : page.data.tabs[k].gid = gid
  /\ page' = HomeEffects(page,
               [page EXCEPT !.activeTab = gid, !.iframeKey = @ + 1,
                            !.clicks = @ + 1, !.last = "click"])
  /\ UNCHANGED <<input, output, loop>>

\* SOS page: fetchTabs up to its first await
SosFetchTabs(p) ==
  [p EXCEPT !.fetches = @ + 1,
            !.pending = @ \cup
              {[n |-> p.fetches + 1, what |-> "tabs", tab |-> p.activeTabId]}]

\* SOS page: fetchSheetData of the render whose active tab is `tab`, up to
\* its first await
fetchSheetData(p, tab) ==
  IF tab = Null THEN p
  ELSE [p EXCEPT !.loading = TRUE, !.error = Null, !.fetches = @ + 1,
                 !.pending = @ \cup
                   {[n |-> p.fetches + 1, what |-> "sheet", tab |-> tab]}]

\* SOS page: the effects of the render after `old` became `new`
SosEffects(old, new) ==
  LET switched == new.activeTabId # old.activeTabId
      listed == IF switched THEN SosFetchTabs(new) ELSE new
      fetched == IF switched /\ new.activeTabId # Null
                 THEN fetchSheetData(listed, new.activeTabId) ELSE listed
  IN IF switched \/ new.sheetData # old.sheetData
     THEN TimersEffect(fetched, new.sheetData # Null, new.activeTabId)
     ELSE fetched

\* the SOS page mounts: the three effects run, and no tab is active yet
SosMount == SosFetchTabs(SosState)

\* SOS page: /api/sos answered 200 with the tab list
SosTabsOk(f, tabs) ==
  /\ page.route = "sos"
  /\ f \in page.pending
  /\ f.what = "tabs"
  /\ page' =
       IF ~page.mounted THEN Settle(page, f, "dropped")
       ELSE SosEffects(page,
              [Settle(page, f, "ok") EXCEPT
                 !.tabs = tabs,
                 !.activeTabId =
                   IF Len(tabs) > 0 /\ f.tab = Null
                   THEN Some(tabs[1].id) ELSE @])
  /\ UNCHANGED <<input, output, loop>>

\* SOS page: /api/sos answered with an error status, or the fetch threw
SosTabsFails(f, message) ==
  /\ page.route = "sos"
  /\ f \in page.pending
  /\ f.what = "tabs"
  /\ page' =
       IF ~page.mounted THEN Settle(page, f, "dropped")
       ELSE SosEffects(page,
              [Settle(page, f, "failed") EXCEPT !.error = Some(message)])
  /\ UNCHANGED <<input, output, loop>>

\* SOS page: /api/sos?id= answered 200 with the sheet.  The sheet is kept
\* as the tab it was asked for and the fetch that brought it; its items,
\* and the filter state computed from them, are not part of this model.
SosSheetOk(f) ==
  /\ page.route = "sos"
  /\ f \in page.pending
  /\ f.what = "sheet"
  /\ page' =
       IF ~page.mounted THEN Settle(page, f, "dropped")
       ELSE SosEffects(page,
              [Settle(page, f, "ok") EXCEPT
                 !.sheetData = [id |-> f.tab.value, of |-> f.n],
                 !.lastUpdated = TRUE,
                 !.loading = FALSE])
  /\ UNCHANGED <<input, output, loop>>

\* SOS page: /api/sos?id= answered with an error status, or the fetch threw
SosSheetFails(f, message) ==
  /\ page.route = "sos"
  /\ f \in page.pending
  /\ f.what = "sheet"
  /\ page' =
       IF ~page.mounted THEN Settle(page, f, "dropped")
       ELSE SosEffects(page,
              [Settle(page, f, "failed") EXCEPT
                 !.error = Some(message),
                 !.loading = FALSE])
  /\ UNCHANGED <<input, output, loop>>

\* SOS page: a click on a tab button
SelectTab(id) ==
  /\ page.route = "sos"
  /\ page.mounted
  /\ page.clicks < MaxClicks
  /\ \E k \in 1..Len(page.tabs) : page.tabs[k].id = id
  /\ page' = SosEffects(page,
               [page EXCEPT !.activeTabId = Some(id),
                            !.clicks = @ + 1, !.last = "click"])
  /\ UNCHANGED <<input, output, loop>>

\* the refresh timeout fires: its callback runs
TimeoutFires(t) ==
  /\ t \in page.timeouts
  /\ page.fired < MaxFirings
  /\ LET due == [page EXCEPT !.timeouts = @ \ {t}, !.fired = @ + 1,
                             !.last = "timeout"]
     IN page' =
          IF page.route = "home"
          THEN scheduleNextRefresh(
                 [due EXCEPT !.iframeKey = @ + 1, !.lastUpdated = TRUE], Null)
          ELSE scheduleNextRefresh(fetchSheetData(due, due.timerTab),
                                   due.timerTab)
  /\ UNCHANGED <<input, output, loop>>

\* the countdown interval fires k times in a row
IntervalTicks(i, k) ==
  /\ i \in page.intervals
  /\ page.mounted
  /\ page' = [page EXCEPT !.nextRefreshIn = CountdownBy(@, k),
                          !.last = "tick"]
  /\ UNCHANGED <<input, output, loop>>

\* the page is left: the cleanup of the auto-refresh effect runs
Unmount ==
  /\ page.mounted
  /\ page' = [ClearTimers(page) EXCEPT !.mounted = FALSE,
                                       !.last = "unmount"]
  /\ UNCHANGED <<input, output, loop>>

PageInit ==
  /\ AtRest
  /\ input = <<>>
  /\ output = Null
  /\ page \in {HomeMount, SosMount}

PageNext ==
  \/ \E f \in page.pending : HomeTabsOk(f)
  \/ \E f \in page.pending, message \in HomeErrors : HomeTabsFails(f, message)
  \/ \E tab \in 1..Len(HomeTabs) : handleTabChange(HomeTabs[tab].gid)
  \/ \E f \in page.pending, tabs \in SosTabLists : SosTabsOk(f, tabs)
  \/ \E f \in page.pending, message \in SosTabsErrors :
       SosTabsFails(f, message)
  \/ \E f \in page.pending : SosSheetOk(f)
  \/ \E f \in page.pending, message \in SosSheetErrors :
       SosSheetFails(f, message)
  \/ \E id \in {0, 7} : SelectTab(id)
  \/ \E t \in page.timeouts : TimeoutFires(t)
  \/ \E i \in page.intervals, k \in Ticks : IntervalTicks(i, k)
  \/ Unmount

PageSpec == PageInit /\ [][PageNext]_vars

\* what a page has loaded, and whether it has loaded anything
Loaded(p) ==
  IF p.route = "home" THEN p.data ELSE [tabs |-> p.tabs, sheet |-> p.sheetData]

HasLoaded(p) ==
  IF p.route = "home" THEN p.data # Null ELSE p.sheetData # Null

\* C23: in both pages, when a fetch fails after data was loaded, the page
\* holds the error message and still holds the data it had loaded: the
\* failure does not clear the data state.
C23_FailureKeepsData ==
  [][page'.last = "failed" /\ HasLoaded(page)
       => page'.error # Null /\ Loaded(page') = Loaded(page)]_vars

\* every fetch of the page has settled and none has left an error
AtQuiet(p) == p.pending = {} /\ p.error = Null

\* C28: in the SOS page, once every pending request has settled, the sheet
\* shown is the one of the tab selected last, whatever the order in which
\* the responses arrived.
C28_LastSelectedTabShown ==
  page.route = "sos" /\ AtQuiet(page) /\ page.sheetData # Null
    => Some(page.sheetData.id) = page.activeTabId

\* C29: in both pages at most one refresh timeout and at most one countdown
\* interval are pending, and the countdown shown is never negative.
C29_OneTimerEach ==
  /\ Cardinality(page.timeouts) <= 1
  /\ Cardinality(page.intervals) <= 1
  /\ page.nextRefreshIn >= 0

\* the refresh timeout has fired and scheduled the next one, the sheet it
\* asked for has arrived and run the effect again, and the countdown has
\* been run down to the floor
C29_Witness ==
  /\ page.route = "sos"
  /\ page.fired = 1
  /\ page.sheetData # Null
  /\ page.sheetData.of = page.fetches
  /\ page.timeouts = {page.timerRef}
  /\ page.intervals = {page.countdownRef}
  /\ page.nextRefreshIn = 0

====
